---- MODULE Spec2Model ----
(***************************************************************************)
(* The embedded-scripting bridge of revgame: the shared state the Lua      *)
(* host functions write (LuaGameState), the host systems of the InGame     *)
(* tick (scripted.rs) and the entity store they act on.                    *)
(*                                                                         *)
(* Option<T> is a sequence of length at most one: None is <<>>, Some(v)    *)
(* is <<v>>.  An f32 payload (a position, a size, a health value) is one   *)
(* abstract value of Vals.  A host entity handle (bevy Entity) is a        *)
(* positive number handed out once; Entity::PLACEHOLDER is PLACEHOLDER.    *)
(***************************************************************************)
EXTENDS Integers, Sequences, FiniteSets, TLC

\* Total number of host-function calls the scripts make in one session.
MaxCalls == 3

\* Total number of producer calls made on the bridge taken on its own.
BridgeCalls == 2

\* The f32 values scripts pass.
Vals == {0, 1}

\* Entity::PLACEHOLDER, the handle of no realized entity.
PLACEHOLDER == 0

None == <<>>
Some(v) == <<v>>

VARIABLES
  \* LuaGameStateInner
  pending_spawns, position_updates, velocity_updates, camera_position,
  mark_player, mark_camera_target, mark_world_element, next_entity_id,
  entity_map, delta_time, keys_pressed, entity_positions,
  current_camera_pos, health_updates, entity_health, size_updates,
  \* LuaRuntime: the loaded-script records and the interpreter's globals
  loaded_scripts, globals,
  \* the environment: the frame clock, the keyboard, the script files and
  \* the watcher's channel
  frame_delta, keyboard, disk, channel,
  \* startup: the outcome of the fallible steps of init_lua_scripting and
  \* the resources it inserted
  startup, resources,
  \* the watcher: the changed paths its debouncer holds back, and the events
  \* a poll has received so far
  debounced, polled,
  \* the systems of a schedule that have started and not yet returned
  in_progress,
  \* the REST client: the TokenState every clone of the ApiClient shares,
  \* the call each clone is in, and the values set and requests sent so far
  tokens, tasks, api_log,
  \* the orbiter agents, and the entities agent_behavior's player query finds
  agents, player_query,
  \* the host: entity store, handle allocator, camera transform, player slot
  world, next_handle, camera_pos, player_entity,
  \* position in the schedule
  pc,
  \* history: calls made, ids returned by spawn_sprite, ids issued since the
  \* last command-processing run, what that run did, the id every handle was
  \* created for, and the bridge's produce/consume logs
  calls, returned, issued_tick, last_run, created_for, last_take, produced,
  consumed,
  \* history: the systems run so far in this frame, the camera positions
  \* written since the last command-processing run, the last read a script
  \* made and the last reload attempt
  tick_log, camera_tick, last_read, last_reload

bridge_vars == <<pending_spawns, position_updates, velocity_updates,
                 camera_position, mark_player, mark_camera_target,
                 mark_world_element, next_entity_id, entity_map,
                 delta_time, keys_pressed, entity_positions,
                 current_camera_pos, health_updates, entity_health,
                 size_updates>>
snapshot_vars == <<delta_time, keys_pressed, entity_health>>
queue_vars == <<pending_spawns, position_updates, velocity_updates,
                camera_position, mark_player, mark_camera_target,
                mark_world_element, health_updates, size_updates>>
host_vars == <<world, next_handle, camera_pos, player_entity>>
hist_vars == <<calls, returned, issued_tick, last_run, created_for>>
log_vars == <<last_take, produced, consumed>>
runtime_vars == <<loaded_scripts, globals>>
env_vars == <<frame_delta, keyboard, disk, channel>>
read_vars == <<last_read, last_reload>>
install_vars == <<startup, resources>>
watch_vars == <<debounced, polled>>
sched_vars == <<in_progress>>
client_vars == <<tokens, tasks, api_log>>
agent_vars == <<agents, player_query>>
side_vars == <<client_vars, agent_vars>>
\* What the scripting systems of the frame other than the reload check, the
\* clock step and the input step leave alone.
outer_vars == <<runtime_vars, env_vars, read_vars, install_vars, watch_vars,
                sched_vars, side_vars>>
vars == <<bridge_vars, host_vars, pc, hist_vars, log_vars, runtime_vars,
          env_vars, read_vars, install_vars, watch_vars, sched_vars,
          side_vars, tick_log, camera_tick>>

Range(s) == {s[i] : i \in 1..Len(s)}

(***************************************************************************)
(* LuaGameState: the methods of bindings.rs as functions of the fields     *)
(* they touch.  Every method holds the RwLock for its whole body, so each  *)
(* is one atomic step.                                                     *)
(***************************************************************************)

\* A take that returns the contents and leaves them in place.
mem_take_keep(q) == [ret |-> q, left |-> q]

\* std::mem::take on a Vec: the old contents are returned, the field is left
\* empty.
mem_take(q) == [ret |-> q, left |-> <<>>]

take_pending_spawns == mem_take(pending_spawns)
take_position_updates == mem_take(position_updates)
take_velocity_updates == mem_take(velocity_updates)
take_mark_player == mem_take(mark_player)
take_mark_camera_target == mem_take(mark_camera_target)
take_mark_world_element == mem_take(mark_world_element)
take_health_updates == mem_take(health_updates)
take_size_updates == mem_take(size_updates)
\* Option::take
take_camera_position == [ret |-> camera_position, left |-> None]

\* A registration that starts the map afresh.
register_entity_reset(map, lua_id, entity) ==
  [k \in {lua_id} |-> entity]

\* HashMap::insert: the entry for lua_id is set, every other entry is kept.
register_entity(map, lua_id, entity) ==
  [k \in DOMAIN map \cup {lua_id} |-> IF k = lua_id THEN entity ELSE map[k]]

\* A lookup that falls back to some mapped entity when the id is unknown.
get_entity_fallback(map, lua_id) ==
  IF lua_id \in DOMAIN map THEN Some(map[lua_id])
  ELSE IF DOMAIN map # {} THEN Some(map[CHOOSE k \in DOMAIN map : TRUE])
  ELSE None

get_entity(map, lua_id) ==
  IF lua_id \in DOMAIN map THEN Some(map[lua_id]) ELSE None

\* HashMap::insert on entity_positions
update_entity_position(positions, lua_id, v) ==
  [k \in DOMAIN positions \cup {lua_id} |->
     IF k = lua_id THEN v ELSE positions[k]]

\* The width in bits of next_entity_id, a u32, scaled down.
IdBits == 3

\* u32::MAX at that width.
U32_MAX == 2^IdBits - 1

\* `n += 1` on an unsigned integer of that width when overflow is not
\* checked.
wrapping_add(n) == (n + 1) % 2^IdBits

\* A spawn_sprite that forgets to advance the counter.
spawn_sprite_same_id(v) ==
  [ret |-> next_entity_id,
   next |-> next_entity_id,
   pending |-> Append(pending_spawns, [lua_id |-> next_entity_id, x |-> v])]

\* spawn_sprite: the id handed to the script, the counter and the queue
\* after.  The counter is advanced with `+= 1` on an unsigned integer; the
\* value here is the one of a build without overflow checks.
spawn_sprite(v) ==
  [ret |-> next_entity_id,
   next |-> wrapping_add(next_entity_id),
   pending |-> Append(pending_spawns, [lua_id |-> next_entity_id, x |-> v])]

\* A set_position that overwrites the buffer, as the camera setter does.
set_position_overwrite(id, v) == << <<id, v>> >>

\* The value-carrying setters push one (id, payload) pair.
set_position(id, v) == Append(position_updates, <<id, v>>)
set_velocity(id, v) == Append(velocity_updates, <<id, v>>)
set_health(id, v) == Append(health_updates, <<id, v>>)
set_sprite_size(id, v) == Append(size_updates, <<id, v>>)

\* A camera setter that keeps a value that is already pending.
set_camera_position_first(v) ==
  IF camera_position = None THEN Some(v) ELSE camera_position

\* set_camera_position: the pending value is replaced.
set_camera_position(v) == Some(v)
mark_as_player(id) == Append(mark_player, id)
mark_as_camera_target(id) == Append(mark_camera_target, id)
mark_as_world_element(id) == Append(mark_world_element, id)

(***************************************************************************)
(* The entity store.  world maps every live handle to its components:      *)
(* pos is the Transform translation, player / camera_target /              *)
(* world_element say whether the marker component is attached, velocity   *)
(* and move_speed hold the value of the component when it is attached.     *)
(***************************************************************************)
\* MoveSpeed::default().
DEFAULT_MOVE_SPEED == 200

NoMarkers(v) ==
  [pos |-> v, player |-> FALSE, camera_target |-> FALSE,
   world_element |-> FALSE, velocity |-> None, move_speed |-> None]

\* A test of the slot that takes the placeholder for a handle.
SlotSet == player_entity # None

\* LuaPlayerEntity(Option<(u32, Entity)>): the slot holds a realized handle.
SlotReal ==
  player_entity # None /\ player_entity[1].entity # PLACEHOLDER

\* A lookup that takes whatever it finds, or nothing, for a function.
call_function_any(g, name) == "Ok"

\* call_function, call_spawn_function and call_update_function up to the
\* call itself: the global is looked up and must be a function (a
\* global bound to the version tag 0 is not).
call_function(g, name) ==
  IF name \in DOMAIN g /\ g[name] # 0 THEN "Ok" ELSE "Err"

\* The systems that call into the interpreter; each calls the global
\* function of its own name.
EntrySteps ==
  {"spawn_world", "spawn_player", "update_player", "update_camera"}

\* A script function is executing: the system found the resources it takes,
\* the update systems found a real handle in the player slot, and the entry
\* point is a global function.
ScriptRunning ==
  /\ pc \in EntrySteps
  /\ "LuaRuntime" \in resources
  /\ pc # "spawn_world" => "LuaPlayerEntity" \in resources
  /\ pc \in {"update_player", "update_camera"} => SlotReal
  /\ call_function(globals, pc) = "Ok"

\* The ids a script can pass: those issued so far and the next, not yet issued.
ScriptIds == 1..next_entity_id

\* What the last command-processing run found and did: the ids issued
\* since the run before, the queues, the mapped ids and the entity store
\* as they were when it started, and the (id, handle) pairs it created.
NoRun ==
  [spawned |-> <<>>, issued |-> <<>>, pending |-> <<>>,
   marks_player |-> <<>>,
   marks_camera_target |-> <<>>, marks_world_element |-> <<>>,
   positions |-> <<>>, known |-> {}, before |-> <<>>,
   camera_writes |-> <<>>, camera_before |-> 0]

\* The last bridge operation, when it was a take: which one, what it
\* returned, what the buffer held when it was called, and whether the
\* operation before it was the same take.
NoTake == [kind |-> "none", ret |-> <<>>, before |-> <<>>, again |-> FALSE]

EmptyLog ==
  [spawns |-> <<>>, positions |-> <<>>, velocities |-> <<>>,
   healths |-> <<>>, sizes |-> <<>>, players |-> <<>>,
   camera_targets |-> <<>>, world_elements |-> <<>>]

(***************************************************************************)
(* The read-only snapshots of the bridge.  A key name is a String, here    *)
(* the sequence of its ASCII codes, so that to_uppercase is computed.      *)
(***************************************************************************)

\* str::to_uppercase on ASCII text: a..z become A..Z, the rest is kept.
to_uppercase(str) ==
  [i \in 1..Len(str) |-> IF str[i] \in 97..122 THEN str[i] - 32 ELSE str[i]]

\* set_key_pressed: insert or remove the upper-cased name.
set_key_pressed(keys, key, pressed) ==
  IF pressed THEN keys \cup {to_uppercase(key)}
  ELSE keys \ {to_uppercase(key)}

\* A clear_keys that leaves the set as it is.
clear_keys_kept == keys_pressed

\* clear_keys: HashSet::clear.
clear_keys == {}

\* is_key_pressed: the upper-cased name is in the set.
is_key_pressed(keys, key) == to_uppercase(key) \in keys

\* A get_position that answers for an unknown id with a known one's entry.
get_position_any(positions, id) ==
  IF id \in DOMAIN positions THEN positions[id]
  ELSE IF DOMAIN positions # {}
       THEN positions[CHOOSE k \in DOMAIN positions : TRUE] + 1
       ELSE 0

\* get_position: the snapshot entry, (0.0, 0.0) when there is none.
get_position(positions, id) ==
  IF id \in DOMAIN positions THEN positions[id] ELSE 0

\* get_health: the (current, max) entry, (0.0, 0.0) when there is none.
get_health(health, id) ==
  IF id \in DOMAIN health THEN health[id] ELSE <<0, 0>>

get_camera_position == current_camera_pos
get_delta_time == delta_time

\* HashMap::insert on entity_health
update_entity_health(health, lua_id, current, max) ==
  [k \in DOMAIN health \cup {lua_id} |->
     IF k = lua_id THEN <<current, max>> ELSE health[k]]

\* The names of the keys "W", "A", "S", "D", "UP", "DOWN", "LEFT", "RIGHT".
key_mappings ==
  << <<"KeyW", <<87>> >>, <<"KeyA", <<65>> >>, <<"KeyS", <<83>> >>,
     <<"KeyD", <<68>> >>, <<"ArrowUp", <<85, 80>> >>,
     <<"ArrowDown", <<68, 79, 87, 78>> >>,
     <<"ArrowLeft", <<76, 69, 70, 84>> >>,
     <<"ArrowRight", <<82, 73, 71, 72, 84>> >> >>

\* The loop of lua_update_input from mapping i on: set_key_pressed(name,
\* true) for every mapped key the keyboard reports pressed.
RECURSIVE update_input(_, _, _)
update_input(keys, pressed, i) ==
  IF i > Len(key_mappings) THEN keys
  ELSE update_input(
         IF key_mappings[i][1] \in pressed
         THEN set_key_pressed(keys, key_mappings[i][2], TRUE)
         ELSE keys,
         pressed, i + 1)

(***************************************************************************)
(* LuaRuntime.  A source text is the sequence of its top-level statements, *)
(* each defining a global function or raising an error, and the fact of    *)
(* whether it parses; two texts are equal when they are the same record.   *)
(* A global function is known by the version tag of the statement that     *)
(* defined it.                                                             *)
(***************************************************************************)
Def(name, ver) == [op |-> "def", name |-> name, ver |-> ver]
\* A statement that binds the global to a value that is not a function: the
\* version tag 0 stands for such a value.
Assign(name) == [op |-> "def", name |-> name, ver |-> 0]
Fail == [op |-> "error"]
SrcA ==
  [syntax_ok |-> TRUE,
   stmts |-> <<Def("spawn_player", 1), Def("update_player", 1)>>]
SrcWorld == [syntax_ok |-> TRUE, stmts |-> <<Def("spawn_world", 1)>>]
SrcCamera == [syntax_ok |-> TRUE, stmts |-> <<Def("update_camera", 1)>>]
\* A player script whose update_player is not a function.
SrcSpawnOnly ==
  [syntax_ok |-> TRUE,
   stmts |-> <<Def("spawn_player", 1), Assign("update_player")>>]
SrcB ==
  [syntax_ok |-> TRUE,
   stmts |-> <<Def("update_player", 2), Def("update_camera", 2)>>]
SrcParseError == [syntax_ok |-> FALSE, stmts |-> <<Def("update_player", 3)>>]
SrcRuntimeError ==
  [syntax_ok |-> TRUE, stmts |-> <<Def("update_camera", 4), Fail>>]
Sources == {SrcA, SrcB, SrcParseError, SrcRuntimeError}

\* A file that cannot be read (std::fs::read_to_string fails).
Unreadable == [unreadable |-> TRUE]

\* The scripts init_lua_scripting loads.
ScriptNames == {"world", "player", "camera"}

\* Chunk::exec from statement i on: the globals after, whether the chunk
\* ran to its end, and the number of statements executed.
RECURSIVE run_stmts(_, _, _)
run_stmts(g, stmts, i) ==
  IF i > Len(stmts) THEN [ok |-> TRUE, globals |-> g, ran |-> i - 1]
  ELSE IF stmts[i].op = "error"
       THEN [ok |-> FALSE, globals |-> g, ran |-> i]
       ELSE run_stmts(
              [k \in DOMAIN g \cup {stmts[i].name} |->
                 IF k = stmts[i].name THEN stmts[i].ver ELSE g[k]],
              stmts, i + 1)

\* An exec that reports the outcome of the chunk without binding anything.
exec_unbound(g, content) ==
  [ok |-> content.syntax_ok /\ run_stmts(g, content.stmts, 1).ok,
   globals |-> g, ran |-> 0]

\* lua.load(content).exec(): a text that does not parse runs nothing.
exec(g, content) ==
  IF content.syntax_ok THEN run_stmts(g, content.stmts, 1)
  ELSE [ok |-> FALSE, globals |-> g, ran |-> 0]

\* A load that writes the record before it executes the chunk.
load_script_content_eager(rt, name, content) ==
  LET r == exec(rt.globals, content)
  IN [result |-> IF r.ok THEN "Ok" ELSE "Err",
      loaded_scripts |->
        [k \in DOMAIN rt.loaded_scripts \cup {name} |->
           IF k = name THEN content ELSE rt.loaded_scripts[k]],
      globals |-> r.globals,
      execs |-> 1]

\* load_script_content on the runtime rt = [loaded_scripts, globals]: the
\* record is written only when the chunk ran to its end.  execs counts the
\* chunks handed to the interpreter.
load_script_content(rt, name, content) ==
  LET r == exec(rt.globals, content)
  IN [result |-> IF r.ok THEN "Ok" ELSE "Err",
      loaded_scripts |->
        IF r.ok
        THEN [k \in DOMAIN rt.loaded_scripts \cup {name} |->
                IF k = name THEN content ELSE rt.loaded_scripts[k]]
        ELSE rt.loaded_scripts,
      globals |-> r.globals,
      execs |-> 1]

\* load_script: read the file, then load its content.
load_script(rt, name, file) ==
  IF file = Unreadable
  THEN [result |-> "Err", loaded_scripts |-> rt.loaded_scripts,
        globals |-> rt.globals, execs |-> 0]
  ELSE load_script_content(rt, name, file)

\* A reload that executes the file whether or not it changed.
reload_script_always(rt, name, file) ==
  IF file = Unreadable
  THEN [result |-> "Err", loaded_scripts |-> rt.loaded_scripts,
        globals |-> rt.globals, execs |-> 0]
  ELSE LET l == load_script_content(rt, name, file)
       IN [l EXCEPT !.result = IF l.result = "Ok" THEN "Ok(true)" ELSE "Err"]

\* reload_script: Ok(false) when the file equals the record, otherwise the
\* outcome of loading it.
reload_script(rt, name, file) ==
  IF file = Unreadable
  THEN [result |-> "Err", loaded_scripts |-> rt.loaded_scripts,
        globals |-> rt.globals, execs |-> 0]
  ELSE IF name \in DOMAIN rt.loaded_scripts /\ rt.loaded_scripts[name] = file
       THEN [result |-> "Ok(false)", loaded_scripts |-> rt.loaded_scripts,
             globals |-> rt.globals, execs |-> 0]
       ELSE LET l == load_script_content(rt, name, file)
            IN [l EXCEPT !.result =
                  IF l.result = "Ok" THEN "Ok(true)" ELSE "Err"]

\* A watcher event: the file's stem and extension and the event kind.
Event(stem, ext, kind) == [stem |-> stem, ext |-> ext, kind |-> kind]

\* The file a path names, as read_to_string finds it.
read_file(files, stem, ext) ==
  IF ext = "lua" /\ stem \in DOMAIN files THEN files[stem] ELSE Unreadable

\* What the debouncer sends: Ok(batch of events) or Err(error).
OkBatch(events) == [ok |-> TRUE, events |-> events]
ErrBatch == [ok |-> FALSE, events |-> <<>>]

\* An rx.try_recv() that hands out the first message and leaves it queued.
rx_try_recv_peek(ch) == [result |-> Head(ch), left |-> ch]

\* rx.try_recv() on a channel that holds a message: the message leaves the
\* channel.
rx_try_recv(ch) == [result |-> Head(ch), left |-> Tail(ch)]

\* One turn of the loop of ScriptWatcher::try_recv: the events of an Ok
\* batch are appended, an Err is dropped.
append_batch(events, result) ==
  IF result.ok THEN events \o result.events ELSE events

\* ScriptWatcher::try_recv run without interruption: every message that is
\* in the channel is received.
RECURSIVE try_recv(_, _)
try_recv(ch, events) ==
  IF ch = <<>> THEN events
  ELSE try_recv(rx_try_recv(ch).left,
                append_batch(events, rx_try_recv(ch).result))

\* A loop body that reloads for an event of any extension.
handle_event_any_ext(rt, files, e) ==
  IF e.kind = "Any"
  THEN LET r == reload_script(rt, e.stem, read_file(files, e.stem, e.ext))
       IN [loaded_scripts |-> r.loaded_scripts, globals |-> r.globals,
           result |-> r.result, execs |-> r.execs, reads |-> 1, calls |-> 1]
  ELSE [loaded_scripts |-> rt.loaded_scripts, globals |-> rt.globals,
        result |-> "skipped", execs |-> 0, reads |-> 0, calls |-> 0]

\* A loop body that reloads for nothing.
handle_event_never(rt, files, e) ==
  [loaded_scripts |-> rt.loaded_scripts, globals |-> rt.globals,
   result |-> "skipped", execs |-> 0, reads |-> 0, calls |-> 0]

\* The body of the loop of check_script_changes for one event: a reload,
\* which reads the file once, when the kind is Any and the extension is
\* "lua"; reads and calls count the files read and the reload_script calls.
handle_event(rt, files, e) ==
  IF e.kind = "Any" /\ e.ext = "lua"
  THEN LET r == reload_script(rt, e.stem, read_file(files, e.stem, e.ext))
       IN [loaded_scripts |-> r.loaded_scripts, globals |-> r.globals,
           result |-> r.result, execs |-> r.execs, reads |-> 1, calls |-> 1]
  ELSE [loaded_scripts |-> rt.loaded_scripts, globals |-> rt.globals,
        result |-> "skipped", execs |-> 0, reads |-> 0, calls |-> 0]

\* The loop of check_script_changes over the drained events.
RECURSIVE reload_events(_, _, _)
reload_events(rt, files, events) ==
  IF events = <<>> THEN rt
  ELSE LET r == handle_event(rt, files, events[1])
       IN reload_events(
            [loaded_scripts |-> r.loaded_scripts, globals |-> r.globals],
            files, Tail(events))

\* The loop of init_lua_scripting over the scripts that exist on disk.
RECURSIVE load_initial(_, _, _)
load_initial(rt, files, names) ==
  IF names = <<>> THEN rt
  ELSE LET l == load_script(rt, names[1], files[names[1]])
       IN load_initial(
            IF names[1] \in DOMAIN files
            THEN [loaded_scripts |-> l.loaded_scripts, globals |-> l.globals]
            ELSE rt,
            files, Tail(names))

NoRuntime == [loaded_scripts |-> <<>>, globals |-> <<>>]
\* The last read or input step on the snapshots: its argument, its result
\* and the snapshots as they were before it.
NoRead == [op |-> "none", arg |-> 0, ret |-> 0, before |-> <<>>]
\* The last load_script or reload_script call: which of the two, the name,
\* the file as it was read, the result, the number of chunks executed, the
\* runtime before the call, whether it repeats a call that reported no
\* change, and for every name the source of the last attempt on it whose
\* file was read and ran to its end.
NoReload ==
  [op |-> "none", name |-> "", file |-> Unreadable, result |-> "none",
   execs |-> 0, before |-> NoRuntime, again |-> FALSE, succeeded |-> <<>>]

\* The script directory at startup: every script is there and defines its
\* entry points.
InitialDisk ==
  [n \in ScriptNames |->
     CASE n = "world" -> SrcWorld
       [] n = "player" -> SrcA
       [] n = "camera" -> SrcCamera]

\* The outcome of LuaRuntime::new, of setup_lua_bindings and of
\* init_script_watcher; StartupOk is the startup in which none fails.
StartupOk == [lua_new |-> "Ok", bindings |-> "Ok", watcher |-> "Ok"]

\* An init_lua_scripting that inserts the runtime and the player slot
\* although the bindings could not be registered.
init_lua_scripting_partial(st, files) ==
  IF st.lua_new = "Err"
  THEN [resources |-> {}, runtime |-> NoRuntime]
  ELSE [resources |->
          {"LuaRuntime", "LuaPlayerEntity"}
            \cup (IF st.bindings = "Ok" THEN {"LuaGameState"} ELSE {})
            \cup (IF st.watcher = "Ok" THEN {"ScriptWatcher"} ELSE {}),
        runtime |->
          load_initial(NoRuntime, files, <<"world", "player", "camera">>)]

\* init_lua_scripting: the resources it inserts and the runtime it loaded
\* the scripts into; it returns before inserting anything when the
\* interpreter cannot be created or the bindings cannot be registered.
init_lua_scripting(st, files) ==
  IF st.lua_new = "Err" \/ st.bindings = "Err"
  THEN [resources |-> {}, runtime |-> NoRuntime]
  ELSE [resources |->
          {"LuaRuntime", "LuaGameState", "LuaPlayerEntity"}
            \cup (IF st.watcher = "Ok" THEN {"ScriptWatcher"} ELSE {}),
        runtime |->
          load_initial(NoRuntime, files, <<"world", "player", "camera">>)]

\* The runtime init_lua_scripting installs.
InitialRuntime == init_lua_scripting(StartupOk, InitialDisk).runtime

(***************************************************************************)
(* The REST client (api/).  ApiClient derives Clone and its token state is *)
(* an Arc<RwLock<TokenState>>: every clone reads and writes the one        *)
(* TokenState.  A token is one value of TokenVals.  A response is what     *)
(* send() and the body parse come to: sent is FALSE when send() returned   *)
(* an error, json is FALSE when the body does not deserialize.             *)
(***************************************************************************)

\* Calls started on the client and its clone in all.
MaxApiCalls == 3

TokenVals == {1, 2}

\* The client and one clone of it.
Clients == {1, 2}

\* TokenState::default(), the state of ApiClient::new.
NoTokens == [access_token |-> None, refresh_token |-> None]

\* A setter that stores the token in the other field.
set_refresh_token_swapped(t, token) == [t EXCEPT !.access_token = Some(token)]

set_access_token(t, token) == [t EXCEPT !.access_token = Some(token)]
set_refresh_token(t, token) == [t EXCEPT !.refresh_token = Some(token)]
set_tokens(t, access, refresh) ==
  [t EXCEPT !.access_token = Some(access), !.refresh_token = Some(refresh)]
access_token(t) == t.access_token
refresh_token(t) == t.refresh_token
clear_tokens(t) == [t EXCEPT !.access_token = None, !.refresh_token = None]
is_authenticated(t) == t.access_token # None

\* ApiClient::parse_error: the error a response status stands for.
parse_error(status) ==
  CASE status = 401 -> "Auth"
    [] status = 404 -> "NotFound"
    [] status = 409 -> "Conflict"
    [] status \in 500..599 -> "Server"
    [] OTHER -> "Unknown"

\* StatusCode::is_success.
is_success(status) == status \in 200..299

\* The responses a call can meet.
Responses ==
  {[sent |-> FALSE, status |-> 0, json |-> FALSE],
   [sent |-> TRUE, status |-> 200, json |-> TRUE],
   [sent |-> TRUE, status |-> 200, json |-> FALSE],
   [sent |-> TRUE, status |-> 401, json |-> TRUE],
   [sent |-> TRUE, status |-> 500, json |-> FALSE]}

\* The protected endpoints of sessions.rs and matchmaking.rs.
ProtectedEndpoints ==
  {"create_session", "list_sessions", "get_session", "join_session",
   "leave_session", "delete_session", "join_matchmaking_queue",
   "leave_matchmaking_queue", "get_matchmaking_status"}

\* delete_session alone returns Ok(()) without reading the body.
ParsesBody(op) == op # "delete_session"

\* A first step that sends the request with whatever token there is.
bearer_token_unchecked(t) == [result |-> "Ok", token |-> access_token(t)]

\* The first step of every protected endpoint:
\* self.access_token().await.ok_or_else(|| ApiError::Auth(..))?
bearer_token(t) ==
  IF access_token(t) = None
  THEN [result |-> "Auth", token |-> None]
  ELSE [result |-> "Ok", token |-> access_token(t)]

\* What a call returns for a response: `?` on send() and on json() turns a
\* reqwest error into ApiError::Request, a status that is no success goes
\* through parse_error.
response_result(op, resp) ==
  IF ~resp.sent THEN "Request"
  ELSE IF ~is_success(resp.status) THEN parse_error(resp.status)
  ELSE IF ParsesBody(op) /\ ~resp.json THEN "Request"
  ELSE "Ok"

\* A clone that is in no call, and what its last call was and returned.
Returned(op, result) == [op |-> op, pc |-> "idle", result |-> result]

\* A clone whose request is on its way.
Awaiting(op) == [op |-> op, pc |-> "await", result |-> "none"]

\* The values last set, the requests sent, the calls started and the clone
\* that started the last one; signed_out
\* holds from a clear_tokens until the next set_tokens, set_access_token or
\* successful login or register.
NoApiLog ==
  [access |-> None, refresh |-> None, requests |-> 0, calls |-> 0,
   caller |-> 0, signed_out |-> FALSE]

\* The client is new, and no agent and no player entity exists.
InitSide ==
  /\ tokens = NoTokens
  /\ tasks = [c \in Clients |-> Returned("new", "Ok")]
  /\ api_log = NoApiLog
  /\ agents = <<>>
  /\ player_query = <<>>

\* LuaGameState::new, and the host after Startup and OnEnter(Loading): the
\* camera exists, no sprite does, and the InGame state is being entered.
InitAt(at, st, files) ==
  /\ pending_spawns = <<>>
  /\ position_updates = <<>>
  /\ velocity_updates = <<>>
  /\ camera_position = None
  /\ mark_player = <<>>
  /\ mark_camera_target = <<>>
  /\ mark_world_element = <<>>
  /\ next_entity_id = 1
  /\ entity_map = <<>>
  /\ entity_positions = <<>>
  /\ current_camera_pos = 0
  /\ health_updates = <<>>
  /\ size_updates = <<>>
  /\ world = <<>>
  /\ next_handle = 1
  /\ camera_pos = 0
  /\ player_entity = None
  /\ pc = at
  /\ calls = 0
  /\ returned = <<>>
  /\ issued_tick = <<>>
  /\ last_run = NoRun
  /\ created_for = <<>>
  /\ last_take = NoTake
  /\ produced = EmptyLog
  /\ consumed = EmptyLog
  /\ delta_time = 0
  /\ keys_pressed = {}
  /\ entity_health = <<>>
  /\ disk = files
  /\ loaded_scripts = init_lua_scripting(st, files).runtime.loaded_scripts
  /\ globals = init_lua_scripting(st, files).runtime.globals
  /\ frame_delta = 1
  /\ keyboard = {}
  /\ channel = <<>>
  /\ startup = st
  /\ resources = init_lua_scripting(st, files).resources
  /\ debounced = {}
  /\ polled = <<>>
  /\ in_progress = {}
  /\ InitSide
  /\ tick_log = <<>>
  /\ camera_tick = <<>>
  /\ last_read = NoRead
  /\ last_reload = NoReload

\* The state in which OnEnter(InGame) runs its first system.
InitGame(st, files) == InitAt("spawn_world", st, files)

\* A startup in which nothing fails and every script is there.
Init == InitGame(StartupOk, InitialDisk)

(***************************************************************************)
(* Host functions called by a running script (setup_lua_bindings).         *)
(***************************************************************************)
HostCall ==
  /\ ScriptRunning
  /\ calls < MaxCalls
  /\ calls' = calls + 1
  /\ UNCHANGED <<pc, last_run, created_for, log_vars, snapshot_vars,
                 outer_vars, tick_log>>

SpawnSprite ==
  /\ HostCall
  /\ \E v \in Vals :
       /\ next_entity_id' = spawn_sprite(v).next
       /\ pending_spawns' = spawn_sprite(v).pending
       /\ returned' = Append(returned, spawn_sprite(v).ret)
       /\ issued_tick' = Append(issued_tick, spawn_sprite(v).ret)
  /\ UNCHANGED <<position_updates, velocity_updates, camera_position,
                 mark_player, mark_camera_target, mark_world_element,
                 entity_map, entity_positions, current_camera_pos,
                 health_updates, size_updates, host_vars,
                 camera_tick>>

\* A set_position that writes the Transform of a mapped entity at once.
SetPositionDirect ==
  /\ HostCall
  /\ \E id \in ScriptIds, v \in Vals :
       /\ position_updates' = set_position(id, v)
       /\ world' =
            IF id \in DOMAIN entity_map /\ entity_map[id] \in DOMAIN world
            THEN [world EXCEPT ![entity_map[id]].pos = v]
            ELSE world
  /\ UNCHANGED <<pending_spawns, velocity_updates, camera_position,
                 mark_player, mark_camera_target, mark_world_element,
                 next_entity_id, entity_map, entity_positions,
                 current_camera_pos, health_updates, size_updates,
                 next_handle, camera_pos, player_entity, returned,
                 issued_tick, camera_tick>>

SetPosition ==
  /\ HostCall
  /\ \E id \in ScriptIds, v \in Vals :
       position_updates' = set_position(id, v)
  /\ UNCHANGED <<pending_spawns, velocity_updates, camera_position,
                 mark_player, mark_camera_target, mark_world_element,
                 next_entity_id, entity_map, entity_positions,
                 current_camera_pos, health_updates, size_updates,
                 host_vars, returned, issued_tick, camera_tick>>

SetVelocity ==
  /\ HostCall
  /\ \E id \in ScriptIds, v \in Vals :
       velocity_updates' = set_velocity(id, v)
  /\ UNCHANGED <<pending_spawns, position_updates, camera_position,
                 mark_player, mark_camera_target, mark_world_element,
                 next_entity_id, entity_map, entity_positions,
                 current_camera_pos, health_updates, size_updates,
                 host_vars, returned, issued_tick, camera_tick>>

SetHealth ==
  /\ HostCall
  /\ \E id \in ScriptIds, v \in Vals :
       health_updates' = set_health(id, v)
  /\ UNCHANGED <<pending_spawns, position_updates, velocity_updates,
                 camera_position, mark_player, mark_camera_target,
                 mark_world_element, next_entity_id, entity_map,
                 entity_positions, current_camera_pos, size_updates,
                 host_vars, returned, issued_tick, camera_tick>>

SetSpriteSize ==
  /\ HostCall
  /\ \E id \in ScriptIds, v \in Vals :
       size_updates' = set_sprite_size(id, v)
  /\ UNCHANGED <<pending_spawns, position_updates, velocity_updates,
                 camera_position, mark_player, mark_camera_target,
                 mark_world_element, next_entity_id, entity_map,
                 entity_positions, current_camera_pos, health_updates,
                 host_vars, returned, issued_tick, camera_tick>>

SetCameraPosition ==
  /\ HostCall
  /\ \E v \in Vals :
       /\ camera_position' = set_camera_position(v)
       /\ camera_tick' = Append(camera_tick, v)
  /\ UNCHANGED <<pending_spawns, position_updates, velocity_updates,
                 mark_player, mark_camera_target, mark_world_element,
                 next_entity_id, entity_map, entity_positions,
                 current_camera_pos, health_updates, size_updates,
                 host_vars, returned, issued_tick>>

MarkAsPlayer ==
  /\ HostCall
  /\ \E id \in ScriptIds : mark_player' = mark_as_player(id)
  /\ UNCHANGED <<pending_spawns, position_updates, velocity_updates,
                 camera_position, mark_camera_target, mark_world_element,
                 next_entity_id, entity_map, entity_positions,
                 current_camera_pos, health_updates, size_updates,
                 host_vars, returned, issued_tick, camera_tick>>

MarkAsCameraTarget ==
  /\ HostCall
  /\ \E id \in ScriptIds : mark_camera_target' = mark_as_camera_target(id)
  /\ UNCHANGED <<pending_spawns, position_updates, velocity_updates,
                 camera_position, mark_player, mark_world_element,
                 next_entity_id, entity_map, entity_positions,
                 current_camera_pos, health_updates, size_updates,
                 host_vars, returned, issued_tick, camera_tick>>

MarkAsWorldElement ==
  /\ HostCall
  /\ \E id \in ScriptIds : mark_world_element' = mark_as_world_element(id)
  /\ UNCHANGED <<pending_spawns, position_updates, velocity_updates,
                 camera_position, mark_player, mark_camera_target,
                 next_entity_id, entity_map, entity_positions,
                 current_camera_pos, health_updates, size_updates,
                 host_vars, returned, issued_tick, camera_tick>>

(***************************************************************************)
(* The host systems of scripted.rs, in the order main.rs chains them.      *)
(* A system that calls into a script ends when the script returns; the     *)
(* host calls the script made are the steps above.                         *)
(***************************************************************************)

\* The order the control-flow description gives: snapshot writes, script
\* updates, read-back, command processing, reload check.
update_chain_described ==
  <<"time", "input", "update_player", "healthbar", "update_camera", "sync",
    "process", "reload">>

\* The chained systems of the Update schedule: check_script_changes,
\* lua_update_time, lua_update_input, lua_sync_positions, lua_update_player,
\* lua_update_healthbar, lua_update_camera, lua_process_commands.
update_chain ==
  <<"reload", "time", "input", "sync", "update_player", "healthbar",
    "update_camera", "process">>

\* .chain(): the system that runs after a given one, or the frame's end.
chain_after(step) ==
  LET i == CHOOSE j \in 1..Len(update_chain) : update_chain[j] = step
  IN IF i = Len(update_chain) THEN "frame_end" ELSE update_chain[i + 1]

\* One system of the chain runs to completion.
RunSystem(step) ==
  /\ pc = step
  /\ pc' = chain_after(step)
  /\ tick_log' = Append(tick_log, step)

\* OnEnter(InGame): call_function("spawn_world"); an error is only logged.
lua_spawn_world ==
  /\ pc = "spawn_world"
  /\ pc' = "spawn_player"
  /\ UNCHANGED <<bridge_vars, host_vars, hist_vars, log_vars, outer_vars,
                 tick_log, camera_tick>>

\* A lua_spawn_player that withdraws the queued spawns when the call fails.
lua_spawn_player_rollback ==
  /\ pc = "spawn_player"
  /\ pc' = update_chain[1]
  /\ \/ /\ ScriptRunning
        /\ \E lua_id \in 0..next_entity_id :
             player_entity' =
               Some([lua_id |-> lua_id, entity |-> PLACEHOLDER])
        /\ UNCHANGED pending_spawns
     \/ /\ UNCHANGED player_entity
        /\ pending_spawns' = <<>>
  /\ UNCHANGED <<position_updates, velocity_updates, camera_position,
                 mark_player, mark_camera_target, mark_world_element,
                 next_entity_id, entity_map, delta_time, keys_pressed,
                 entity_positions, current_camera_pos, health_updates,
                 entity_health, size_updates, world, next_handle,
                 camera_pos, hist_vars, log_vars, outer_vars, tick_log,
                 camera_tick>>

\* OnEnter(InGame): without the runtime or the slot nothing happens;
\* call_spawn_function("spawn_player") returns any u32, or fails (always
\* when spawn_player is not a function); on success the slot holds
\* (id, PLACEHOLDER).
lua_spawn_player ==
  /\ pc = "spawn_player"
  /\ pc' = update_chain[1]
  /\ \/ /\ ScriptRunning
        /\ \E lua_id \in 0..next_entity_id :
             player_entity' =
               Some([lua_id |-> lua_id, entity |-> PLACEHOLDER])
     \/ UNCHANGED player_entity
  /\ UNCHANGED <<bridge_vars, world, next_handle, camera_pos, hist_vars,
                 log_vars, outer_vars, tick_log, camera_tick>>

\* check_script_changes: drain the watcher's channel and reload the script
\* of every event for a .lua file.
check_script_changes ==
  /\ RunSystem("reload")
  /\ IF {"ScriptWatcher", "LuaRuntime"} \subseteq resources
     THEN LET rt == reload_events([loaded_scripts |-> loaded_scripts,
                                   globals |-> globals], disk,
                                  try_recv(channel, <<>>))
          IN /\ loaded_scripts' = rt.loaded_scripts
             /\ globals' = rt.globals
             /\ channel' = <<>>
     ELSE UNCHANGED <<loaded_scripts, globals, channel>>
  /\ UNCHANGED <<bridge_vars, host_vars, hist_vars, log_vars, frame_delta,
                 keyboard, disk, read_vars, install_vars, watch_vars,
                 sched_vars, side_vars, camera_tick>>

\* lua_update_time: set_delta_time(time.delta_secs()).
lua_update_time ==
  /\ RunSystem("time")
  /\ delta_time' = IF "LuaGameState" \in resources THEN frame_delta
                   ELSE delta_time
  /\ UNCHANGED <<queue_vars, next_entity_id, entity_map, keys_pressed,
                 entity_positions, current_camera_pos, entity_health,
                 host_vars, hist_vars, log_vars, outer_vars, camera_tick>>

\* lua_update_input: clear_keys, then set_key_pressed for every mapped key
\* that is down.
lua_update_input ==
  /\ RunSystem("input")
  /\ keys_pressed' = IF "LuaGameState" \in resources
                     THEN update_input(clear_keys, keyboard, 1)
                     ELSE keys_pressed
  /\ UNCHANGED <<queue_vars, next_entity_id, entity_map, delta_time,
                 entity_positions, current_camera_pos, entity_health,
                 host_vars, hist_vars, log_vars, outer_vars, camera_tick>>

\* Read-back: the player's position if its handle is real and live, and the
\* camera's position.
lua_sync_positions ==
  /\ RunSystem("sync")
  /\ entity_positions' =
       IF /\ {"LuaGameState", "LuaPlayerEntity"} \subseteq resources
          /\ SlotReal
          /\ player_entity[1].entity \in DOMAIN world
       THEN update_entity_position(entity_positions, player_entity[1].lua_id,
                                   world[player_entity[1].entity].pos)
       ELSE entity_positions
  /\ current_camera_pos' =
       IF {"LuaGameState", "LuaPlayerEntity"} \subseteq resources
       THEN camera_pos ELSE current_camera_pos
  /\ UNCHANGED <<queue_vars, next_entity_id, entity_map, snapshot_vars,
                 host_vars, hist_vars, log_vars, outer_vars, camera_tick>>

\* call_update_function("update_player", id, 0.0) when the slot is real.
lua_update_player ==
  /\ RunSystem("update_player")
  /\ UNCHANGED <<bridge_vars, host_vars, hist_vars, log_vars, outer_vars,
                 camera_tick>>

\* lua_update_healthbar mirrors the health of entities that carry a Health
\* component into the bridge; no sprite the scripts spawn carries one.
lua_update_healthbar ==
  /\ RunSystem("healthbar")
  /\ UNCHANGED <<bridge_vars, host_vars, hist_vars, log_vars, outer_vars,
                 camera_tick>>

\* call_update_function("update_camera", id, 0.0) when the slot is real.
lua_update_camera ==
  /\ RunSystem("update_camera")
  /\ UNCHANGED <<bridge_vars, host_vars, hist_vars, log_vars, outer_vars,
                 camera_tick>>

(***************************************************************************)
(* lua_process_commands.  commands.spawn reserves a fresh handle at once   *)
(* and the entity, like every commands.entity(..).insert, comes into being *)
(* when the system's command buffer is applied right after it; the         *)
(* Transform query sees only the entities that were live before the run.   *)
(* Within a session every mapped handle is live or reserved in this run   *)
(* (MappedLive below), so commands.entity always finds its entity.         *)
(***************************************************************************)

\* (lua_id, handle) for every pending spawn, in queue order.
cp_spawned(spawns) ==
  [i \in 1..Len(spawns) |-> <<spawns[i].lua_id, next_handle + i - 1>>]

\* A loop that registers only the first spawn.
cp_register_first(map, pairs) ==
  IF pairs = <<>> THEN map
  ELSE register_entity(map, pairs[1][1], pairs[1][2])

\* The loop over the spawns: register_entity for each, in order.
RECURSIVE cp_register(_, _)
cp_register(map, pairs) ==
  IF pairs = <<>> THEN map
  ELSE cp_register(register_entity(map, pairs[1][1], pairs[1][2]),
                   Tail(pairs))

\* A loop that hands a waiting slot the handle of whichever spawn comes.
cp_bind_player_any(slot, pairs) ==
  IF slot # None /\ pairs # <<>>
  THEN Some([lua_id |-> slot[1].lua_id, entity |-> pairs[Len(pairs)][2]])
  ELSE slot

\* The loop over the spawns: the player slot takes the handle of its id.
RECURSIVE cp_bind_player(_, _)
cp_bind_player(slot, pairs) ==
  IF pairs = <<>> THEN slot
  ELSE cp_bind_player(
         IF slot # None /\ slot[1].lua_id = pairs[1][1]
         THEN Some([lua_id |-> slot[1].lua_id, entity |-> pairs[1][2]])
         ELSE slot,
         Tail(pairs))

\* The handles a marker queue resolves to through the map.
cp_resolved(map, ids) ==
  {get_entity(map, ids[i])[1] :
     i \in {j \in 1..Len(ids) : get_entity(map, ids[j]) # None}}

\* The loop over the position updates: each writes the Transform of its
\* entity if the id resolves and the query finds the entity.
RECURSIVE cp_positions(_, _, _)
cp_positions(w, map, ups) ==
  IF ups = <<>> THEN w
  ELSE cp_positions(
         IF /\ get_entity(map, ups[1][1]) # None
            /\ get_entity(map, ups[1][1])[1] \in DOMAIN w
         THEN [w EXCEPT ![get_entity(map, ups[1][1])[1]].pos = ups[1][2]]
         ELSE w,
         map, Tail(ups))

\* A command buffer whose marker inserts reach only the entities that were
\* live before the run.
cp_apply_old_only(w, spawns, pairs, players, targets, elements) ==
  LET new == {pairs[i][2] : i \in 1..Len(pairs)}
      idx(h) == CHOOSE i \in 1..Len(pairs) : pairs[i][2] = h
      all == [h \in DOMAIN w \cup new |->
                IF h \in new THEN NoMarkers(spawns[idx(h)].x) ELSE w[h]]
  IN [h \in DOMAIN all |->
        IF h \in new THEN all[h]
        ELSE [all[h] EXCEPT !.player = @ \/ h \in players,
                            !.camera_target = @ \/ h \in targets,
                            !.world_element = @ \/ h \in elements,
                            !.velocity =
                              IF h \in players THEN Some(0) ELSE @,
                            !.move_speed =
                              IF h \in players THEN Some(DEFAULT_MOVE_SPEED)
                              ELSE @]]

\* A command buffer whose insert removes a marker that is already there.
cp_apply_toggle(w, spawns, pairs, players, targets, elements) ==
  LET new == {pairs[i][2] : i \in 1..Len(pairs)}
      idx(h) == CHOOSE i \in 1..Len(pairs) : pairs[i][2] = h
      all == [h \in DOMAIN w \cup new |->
                IF h \in new THEN NoMarkers(spawns[idx(h)].x) ELSE w[h]]
  IN [h \in DOMAIN all |->
        [all[h] EXCEPT !.player = (@ # (h \in players)),
                       !.camera_target = (@ # (h \in targets)),
                       !.world_element = (@ # (h \in elements)),
                       !.velocity =
                         IF h \in players THEN Some(0) ELSE @,
                       !.move_speed =
                         IF h \in players THEN Some(DEFAULT_MOVE_SPEED)
                         ELSE @]]

\* The entity store once the command buffer is applied: the spawned
\* entities exist, every resolved marker is attached, and an entity marked
\* as player has Velocity::default() and MoveSpeed::default() inserted with
\* the marker.
cp_apply(w, spawns, pairs, players, targets, elements) ==
  LET new == {pairs[i][2] : i \in 1..Len(pairs)}
      idx(h) == CHOOSE i \in 1..Len(pairs) : pairs[i][2] = h
      all == [h \in DOMAIN w \cup new |->
                IF h \in new THEN NoMarkers(spawns[idx(h)].x) ELSE w[h]]
  IN [h \in DOMAIN all |->
        [all[h] EXCEPT !.player = @ \/ h \in players,
                       !.camera_target = @ \/ h \in targets,
                       !.world_element = @ \/ h \in elements,
                       !.velocity =
                         IF h \in players THEN Some(0) ELSE @,
                       !.move_speed =
                         IF h \in players THEN Some(DEFAULT_MOVE_SPEED)
                         ELSE @]]

lua_process_commands ==
  /\ RunSystem("process")
  /\ \/ /\ "LuaGameState" \in resources
        /\ LET spawns == take_pending_spawns.ret
               pairs == cp_spawned(spawns)
               map == cp_register(entity_map, pairs)
               reserved == {pairs[i][2] : i \in 1..Len(pairs)}
               players == cp_resolved(map, take_mark_player.ret)
               targets == cp_resolved(map, take_mark_camera_target.ret)
               elements == cp_resolved(map, take_mark_world_element.ret)
               moved == cp_positions(world, map, take_position_updates.ret)
           IN /\ pending_spawns' = take_pending_spawns.left
              /\ entity_map' = map
              /\ player_entity' = cp_bind_player(player_entity, pairs)
              /\ next_handle' = next_handle + Len(pairs)
              /\ mark_player' = take_mark_player.left
              /\ mark_camera_target' = take_mark_camera_target.left
              /\ mark_world_element' = take_mark_world_element.left
              /\ position_updates' = take_position_updates.left
              /\ camera_position' = take_camera_position.left
              /\ camera_pos' = IF take_camera_position.ret # None
                               THEN take_camera_position.ret[1]
                               ELSE camera_pos
              /\ world' = cp_apply(moved, spawns, pairs, players, targets,
                                   elements)
              /\ issued_tick' = <<>>
              /\ created_for' =
                   [h \in DOMAIN created_for \cup reserved |->
                      IF h \in reserved
                      THEN pairs[CHOOSE i \in 1..Len(pairs) :
                                   pairs[i][2] = h][1]
                      ELSE created_for[h]]
              /\ last_run' =
                   [spawned |-> pairs,
                    issued |-> issued_tick,
                    pending |-> pending_spawns,
                    marks_player |-> mark_player,
                    marks_camera_target |-> mark_camera_target,
                    marks_world_element |-> mark_world_element,
                    positions |-> position_updates,
                    known |-> DOMAIN entity_map,
                    before |-> world,
                    camera_writes |-> camera_tick,
                    camera_before |-> camera_pos]
              /\ camera_tick' = <<>>
              /\ UNCHANGED <<velocity_updates, health_updates, size_updates,
                             next_entity_id, entity_positions,
                             current_camera_pos, snapshot_vars, calls, returned,
                             log_vars, outer_vars>>
     \/ /\ "LuaGameState" \notin resources
        /\ UNCHANGED <<bridge_vars, host_vars, hist_vars, log_vars,
                       outer_vars, camera_tick>>

\* The next frame of the main loop while the state stays InGame.
NextFrame ==
  /\ pc = "frame_end"
  /\ pc' = update_chain[1]
  /\ tick_log' = <<>>
  /\ UNCHANGED <<bridge_vars, host_vars, hist_vars, log_vars, outer_vars,
                 camera_tick>>

\* OnExit(InGame), run by the state transition before a frame's Update:
\* despawn_world and despawn_player despawn every entity carrying
\* WorldElement or Player; the bridge is not told.  The session modelled
\* ends here.
OnExitInGame ==
  /\ pc = "frame_end"
  /\ pc' = "out"
  /\ world' = [h \in {k \in DOMAIN world :
                        ~world[k].world_element /\ ~world[k].player} |->
                 world[h]]
  /\ UNCHANGED <<bridge_vars, next_handle, camera_pos, player_entity,
                 hist_vars, log_vars, outer_vars, tick_log, camera_tick>>

Next ==
  \/ SpawnSprite
  \/ SetPosition
  \/ SetVelocity
  \/ SetHealth
  \/ SetSpriteSize
  \/ SetCameraPosition
  \/ MarkAsPlayer
  \/ MarkAsCameraTarget
  \/ MarkAsWorldElement
  \/ lua_spawn_world
  \/ lua_spawn_player
  \/ check_script_changes
  \/ lua_update_time
  \/ lua_update_input
  \/ lua_sync_positions
  \/ lua_update_player
  \/ lua_update_healthbar
  \/ lua_update_camera
  \/ lua_process_commands
  \/ NextFrame
  \/ OnExitInGame

Spec == Init /\ [][Next]_vars

(***************************************************************************)
(* The same systems after a startup that may have failed or found only     *)
(* some of the scripts.                                                    *)
(***************************************************************************)

\* The startups in which a step fails: the interpreter cannot be created,
\* the bindings cannot be registered, or the watcher cannot be created.
FailedStartups ==
  {[StartupOk EXCEPT !.lua_new = "Err"],
   [StartupOk EXCEPT !.bindings = "Err"],
   [StartupOk EXCEPT !.watcher = "Err"]}

\* Script directories in which entry points are missing: only camera.lua is
\* there, or only a player.lua whose update_player is not a function.
StartupDisks ==
  {[n \in {"camera"} |-> SrcCamera], [n \in {"player"} |-> SrcSpawnOnly]}

InitStartup ==
  \/ \E st \in FailedStartups : InitGame(st, [n \in {"camera"} |-> SrcCamera])
  \/ \E files \in StartupDisks : InitGame(StartupOk, files)

SpecStartup == InitStartup /\ [][Next]_vars

(***************************************************************************)
(* The OnEnter(InGame) schedule on its own.  Its two systems are added as  *)
(* a plain tuple, without .chain() or any other ordering, and a schedule   *)
(* runs on the multi-threaded executor, which starts a system while others *)
(* run when their declared accesses do not conflict.  A call into the      *)
(* interpreter takes self.lua.read(), the shared side of the RwLock.       *)
(***************************************************************************)

\* The systems of the schedule.
OnEnterSystems == {"spawn_world", "spawn_player"}

\* The resources a system declares: Res is a read, ResMut a write.
Access(system) ==
  IF system = "spawn_world"
  THEN [reads |-> {"LuaRuntime"}, writes |-> {}]
  ELSE [reads |-> {"LuaRuntime"}, writes |-> {"LuaPlayerEntity"}]

\* The executor's rule: two systems conflict when one writes what the other
\* reads or writes.
conflicts(a, b) ==
  \/ Access(a).writes \cap (Access(b).reads \cup Access(b).writes) # {}
  \/ Access(b).writes \cap (Access(a).reads \cup Access(a).writes) # {}

\* RwLock::read: granted while no writer holds the lock; nothing in the
\* program takes the write side during the schedule.
lua_read(writers) == writers = {}

InitEnter == InitAt("enter", StartupOk, InitialDisk)

\* What the steps of the schedule leave alone besides the bridge.
enter_rest == <<world, next_handle, camera_pos, last_run, created_for,
                log_vars, runtime_vars, env_vars, read_vars, install_vars,
                watch_vars, side_vars, camera_tick>>

\* The executor starts a system that has not run yet and conflicts with no
\* running one; the system finds its resources, takes the read lock and
\* calls its entry point.
EnterStart ==
  /\ pc = "enter"
  /\ \E system \in OnEnterSystems :
       /\ system \notin in_progress
       /\ system \notin Range(tick_log)
       /\ \A other \in in_progress : ~conflicts(system, other)
       /\ lua_read({})
       /\ in_progress' = in_progress \cup {system}
  /\ UNCHANGED <<bridge_vars, player_entity, pc, calls, returned,
                 issued_tick, tick_log, enter_rest>>

\* The script of a running system calls spawn_sprite.
EnterSpawnSprite ==
  /\ pc = "enter"
  /\ calls < MaxCalls
  /\ \E system \in in_progress : call_function(globals, system) = "Ok"
  /\ calls' = calls + 1
  /\ \E v \in Vals :
       /\ next_entity_id' = spawn_sprite(v).next
       /\ pending_spawns' = spawn_sprite(v).pending
       /\ returned' = Append(returned, spawn_sprite(v).ret)
       /\ issued_tick' = Append(issued_tick, spawn_sprite(v).ret)
  /\ UNCHANGED <<position_updates, velocity_updates, camera_position,
                 mark_player, mark_camera_target, mark_world_element,
                 entity_map, entity_positions, current_camera_pos,
                 health_updates, size_updates, snapshot_vars, player_entity,
                 pc, in_progress, tick_log, enter_rest>>

\* The script of a running system calls mark_as_player.
EnterMarkAsPlayer ==
  /\ pc = "enter"
  /\ calls < MaxCalls
  /\ \E system \in in_progress : call_function(globals, system) = "Ok"
  /\ calls' = calls + 1
  /\ \E id \in ScriptIds : mark_player' = mark_as_player(id)
  /\ UNCHANGED <<pending_spawns, position_updates, velocity_updates,
                 camera_position, mark_camera_target, mark_world_element,
                 next_entity_id, entity_map, entity_positions,
                 current_camera_pos, health_updates, size_updates,
                 snapshot_vars, player_entity, pc, in_progress, returned,
                 issued_tick, tick_log, enter_rest>>

\* A running system returns: lua_spawn_player stores the id its call
\* returned, if it returned one.
EnterFinish ==
  /\ pc = "enter"
  /\ \E system \in in_progress :
       /\ in_progress' = in_progress \ {system}
       /\ tick_log' = Append(tick_log, system)
       /\ \/ /\ system = "spawn_player"
             /\ call_function(globals, system) = "Ok"
             /\ \E lua_id \in 0..next_entity_id :
                  player_entity' =
                    Some([lua_id |-> lua_id, entity |-> PLACEHOLDER])
          \/ UNCHANGED player_entity
  /\ UNCHANGED <<bridge_vars, pc, calls, returned, issued_tick, enter_rest>>

\* Both systems have returned: the schedule is through.
EnterDone ==
  /\ pc = "enter"
  /\ OnEnterSystems \subseteq Range(tick_log)
  /\ pc' = "entered"
  /\ UNCHANGED <<bridge_vars, player_entity, in_progress, calls, returned,
                 issued_tick, tick_log, enter_rest>>

NextEnter ==
  \/ EnterStart
  \/ EnterSpawnSprite
  \/ EnterMarkAsPlayer
  \/ EnterFinish
  \/ EnterDone

SpecEnter == InitEnter /\ [][NextEnter]_vars

(***************************************************************************)
(* The bridge on its own: the producer calls and the take operations of    *)
(* one LuaGameState in any order, as its callers (script closures and      *)
(* lua_process_commands) may issue them.  produced logs every command      *)
(* pushed to a queue, consumed every command a take returned.              *)
(***************************************************************************)
InitBridge ==
  /\ pending_spawns = <<>>
  /\ position_updates = <<>>
  /\ velocity_updates = <<>>
  /\ camera_position = None
  /\ mark_player = <<>>
  /\ mark_camera_target = <<>>
  /\ mark_world_element = <<>>
  /\ next_entity_id = 1
  /\ entity_map = <<>>
  /\ entity_positions = <<>>
  /\ current_camera_pos = 0
  /\ health_updates = <<>>
  /\ size_updates = <<>>
  /\ world = <<>>
  /\ next_handle = 1
  /\ camera_pos = 0
  /\ player_entity = None
  /\ pc = "bridge"
  /\ calls = 0
  /\ returned = <<>>
  /\ issued_tick = <<>>
  /\ last_run = NoRun
  /\ created_for = <<>>
  /\ last_take = NoTake
  /\ produced = EmptyLog
  /\ consumed = EmptyLog
  /\ delta_time = 0
  /\ keys_pressed = {}
  /\ entity_health = <<>>
  /\ disk = InitialDisk
  /\ loaded_scripts = InitialRuntime.loaded_scripts
  /\ globals = InitialRuntime.globals
  /\ frame_delta = 1
  /\ keyboard = {}
  /\ channel = <<>>
  /\ startup = StartupOk
  /\ resources = init_lua_scripting(StartupOk, InitialDisk).resources
  /\ debounced = {}
  /\ polled = <<>>
  /\ in_progress = {}
  /\ InitSide
  /\ tick_log = <<>>
  /\ camera_tick = <<>>
  /\ last_read = NoRead
  /\ last_reload = NoReload

\* The nine buffers after a bridge operation; everything else of the
\* bridge and the host is left alone by producers and takes alike.
Buffers(ps, pu, vu, cp, mp, mc, mw, hu, su) ==
  /\ pending_spawns' = ps
  /\ position_updates' = pu
  /\ velocity_updates' = vu
  /\ camera_position' = cp
  /\ mark_player' = mp
  /\ mark_camera_target' = mc
  /\ mark_world_element' = mw
  /\ health_updates' = hu
  /\ size_updates' = su
  /\ UNCHANGED <<entity_map, entity_positions, current_camera_pos,
                 host_vars, pc, issued_tick, last_run, created_for,
                 snapshot_vars, outer_vars, tick_log, camera_tick>>

Produce(queue, cmd) ==
  /\ pc = "bridge"
  /\ calls < BridgeCalls
  /\ calls' = calls + 1
  /\ last_take' = NoTake
  /\ produced' = IF queue = "camera" THEN produced
                 ELSE [produced EXCEPT ![queue] = Append(@, cmd)]
  /\ UNCHANGED consumed

Consume(queue, ret, before) ==
  /\ pc = "bridge"
  /\ last_take' = [kind |-> queue, ret |-> ret, before |-> before,
                   again |-> last_take.kind = queue]
  /\ consumed' = IF queue = "camera" THEN consumed
                 ELSE [consumed EXCEPT ![queue] = @ \o ret]
  /\ UNCHANGED <<calls, produced, next_entity_id, returned>>

BridgeSpawnSprite ==
  \E v \in Vals :
    /\ Produce("spawns", [lua_id |-> spawn_sprite(v).ret, x |-> v])
    /\ next_entity_id' = spawn_sprite(v).next
    /\ returned' = Append(returned, spawn_sprite(v).ret)
    /\ Buffers(spawn_sprite(v).pending, position_updates, velocity_updates,
               camera_position, mark_player, mark_camera_target,
               mark_world_element, health_updates, size_updates)

BridgeSetPosition ==
  \E id \in ScriptIds, v \in Vals :
    /\ Produce("positions", <<id, v>>)
    /\ Buffers(pending_spawns, set_position(id, v), velocity_updates,
               camera_position, mark_player, mark_camera_target,
               mark_world_element, health_updates, size_updates)
    /\ UNCHANGED <<next_entity_id, returned>>

BridgeSetVelocity ==
  \E id \in ScriptIds, v \in Vals :
    /\ Produce("velocities", <<id, v>>)
    /\ Buffers(pending_spawns, position_updates, set_velocity(id, v),
               camera_position, mark_player, mark_camera_target,
               mark_world_element, health_updates, size_updates)
    /\ UNCHANGED <<next_entity_id, returned>>

BridgeSetHealth ==
  \E id \in ScriptIds, v \in Vals :
    /\ Produce("healths", <<id, v>>)
    /\ Buffers(pending_spawns, position_updates, velocity_updates,
               camera_position, mark_player, mark_camera_target,
               mark_world_element, set_health(id, v), size_updates)
    /\ UNCHANGED <<next_entity_id, returned>>

BridgeSetSpriteSize ==
  \E id \in ScriptIds, v \in Vals :
    /\ Produce("sizes", <<id, v>>)
    /\ Buffers(pending_spawns, position_updates, velocity_updates,
               camera_position, mark_player, mark_camera_target,
               mark_world_element, health_updates, set_sprite_size(id, v))
    /\ UNCHANGED <<next_entity_id, returned>>

BridgeSetCameraPosition ==
  \E v \in Vals :
    /\ Produce("camera", v)
    /\ Buffers(pending_spawns, position_updates, velocity_updates,
               set_camera_position(v), mark_player, mark_camera_target,
               mark_world_element, health_updates, size_updates)
    /\ UNCHANGED <<next_entity_id, returned>>

BridgeMarkAsPlayer ==
  \E id \in ScriptIds :
    /\ Produce("players", id)
    /\ Buffers(pending_spawns, position_updates, velocity_updates,
               camera_position, mark_as_player(id), mark_camera_target,
               mark_world_element, health_updates, size_updates)
    /\ UNCHANGED <<next_entity_id, returned>>

BridgeMarkAsCameraTarget ==
  \E id \in ScriptIds :
    /\ Produce("camera_targets", id)
    /\ Buffers(pending_spawns, position_updates, velocity_updates,
               camera_position, mark_player, mark_as_camera_target(id),
               mark_world_element, health_updates, size_updates)
    /\ UNCHANGED <<next_entity_id, returned>>

BridgeMarkAsWorldElement ==
  \E id \in ScriptIds :
    /\ Produce("world_elements", id)
    /\ Buffers(pending_spawns, position_updates, velocity_updates,
               camera_position, mark_player, mark_camera_target,
               mark_as_world_element(id), health_updates, size_updates)
    /\ UNCHANGED <<next_entity_id, returned>>

BridgeTakePendingSpawns ==
  /\ Consume("spawns", take_pending_spawns.ret, pending_spawns)
  /\ Buffers(take_pending_spawns.left, position_updates, velocity_updates,
             camera_position, mark_player, mark_camera_target,
             mark_world_element, health_updates, size_updates)

BridgeTakePositionUpdates ==
  /\ Consume("positions", take_position_updates.ret, position_updates)
  /\ Buffers(pending_spawns, take_position_updates.left, velocity_updates,
             camera_position, mark_player, mark_camera_target,
             mark_world_element, health_updates, size_updates)

BridgeTakeVelocityUpdates ==
  /\ Consume("velocities", take_velocity_updates.ret, velocity_updates)
  /\ Buffers(pending_spawns, position_updates, take_velocity_updates.left,
             camera_position, mark_player, mark_camera_target,
             mark_world_element, health_updates, size_updates)

BridgeTakeCameraPosition ==
  /\ Consume("camera", take_camera_position.ret, camera_position)
  /\ Buffers(pending_spawns, position_updates, velocity_updates,
             take_camera_position.left, mark_player, mark_camera_target,
             mark_world_element, health_updates, size_updates)

BridgeTakeMarkPlayer ==
  /\ Consume("players", take_mark_player.ret, mark_player)
  /\ Buffers(pending_spawns, position_updates, velocity_updates,
             camera_position, take_mark_player.left, mark_camera_target,
             mark_world_element, health_updates, size_updates)

BridgeTakeMarkCameraTarget ==
  /\ Consume("camera_targets", take_mark_camera_target.ret,
             mark_camera_target)
  /\ Buffers(pending_spawns, position_updates, velocity_updates,
             camera_position, mark_player, take_mark_camera_target.left,
             mark_world_element, health_updates, size_updates)

BridgeTakeMarkWorldElement ==
  /\ Consume("world_elements", take_mark_world_element.ret,
             mark_world_element)
  /\ Buffers(pending_spawns, position_updates, velocity_updates,
             camera_position, mark_player, mark_camera_target,
             take_mark_world_element.left, health_updates, size_updates)

BridgeTakeHealthUpdates ==
  /\ Consume("healths", take_health_updates.ret, health_updates)
  /\ Buffers(pending_spawns, position_updates, velocity_updates,
             camera_position, mark_player, mark_camera_target,
             mark_world_element, take_health_updates.left, size_updates)

BridgeTakeSizeUpdates ==
  /\ Consume("sizes", take_size_updates.ret, size_updates)
  /\ Buffers(pending_spawns, position_updates, velocity_updates,
             camera_position, mark_player, mark_camera_target,
             mark_world_element, health_updates, take_size_updates.left)

NextBridge ==
  \/ BridgeSpawnSprite
  \/ BridgeSetPosition
  \/ BridgeSetVelocity
  \/ BridgeSetHealth
  \/ BridgeSetSpriteSize
  \/ BridgeSetCameraPosition
  \/ BridgeMarkAsPlayer
  \/ BridgeMarkAsCameraTarget
  \/ BridgeMarkAsWorldElement
  \/ BridgeTakePendingSpawns
  \/ BridgeTakePositionUpdates
  \/ BridgeTakeVelocityUpdates
  \/ BridgeTakeCameraPosition
  \/ BridgeTakeMarkPlayer
  \/ BridgeTakeMarkCameraTarget
  \/ BridgeTakeMarkWorldElement
  \/ BridgeTakeHealthUpdates
  \/ BridgeTakeSizeUpdates

SpecBridge == InitBridge /\ [][NextBridge]_vars

(***************************************************************************)
(* The snapshot side of the bridge on its own: the host's writers          *)
(* (update_entity_position, update_entity_health, set_key_pressed,         *)
(* clear_keys, the input step against a changing keyboard) and the         *)
(* script's readers, in any order.                                         *)
(***************************************************************************)

\* The largest id the host writes a snapshot entry for.
MaxSnapId == 1

\* The ids a script asks about: 0, the written ones, and one beyond.
SnapIds == 0..(MaxSnapId + 1)

\* The keys of the keyboard followed here; Space has no mapping.
KeyCodes == {"KeyW", "KeyS", "Space"}

\* The names "W", "w", "S", "s" and "x" a caller passes.
KeyNames == {<<87>>, <<119>>, <<83>>, <<115>>, <<120>>}

InitSnapshot ==
  /\ pending_spawns = <<>>
  /\ position_updates = <<>>
  /\ velocity_updates = <<>>
  /\ camera_position = None
  /\ mark_player = <<>>
  /\ mark_camera_target = <<>>
  /\ mark_world_element = <<>>
  /\ next_entity_id = 1
  /\ entity_map = <<>>
  /\ entity_positions = <<>>
  /\ current_camera_pos = 0
  /\ health_updates = <<>>
  /\ size_updates = <<>>
  /\ world = <<>>
  /\ next_handle = 1
  /\ camera_pos = 0
  /\ player_entity = None
  /\ pc = "snapshot"
  /\ calls = 0
  /\ returned = <<>>
  /\ issued_tick = <<>>
  /\ last_run = NoRun
  /\ created_for = <<>>
  /\ last_take = NoTake
  /\ produced = EmptyLog
  /\ consumed = EmptyLog
  /\ delta_time = 0
  /\ keys_pressed = {}
  /\ entity_health = <<>>
  /\ disk = InitialDisk
  /\ loaded_scripts = InitialRuntime.loaded_scripts
  /\ globals = InitialRuntime.globals
  /\ frame_delta = 1
  /\ keyboard = {}
  /\ channel = <<>>
  /\ startup = StartupOk
  /\ resources = init_lua_scripting(StartupOk, InitialDisk).resources
  /\ debounced = {}
  /\ polled = <<>>
  /\ in_progress = {}
  /\ InitSide
  /\ tick_log = <<>>
  /\ camera_tick = <<>>
  /\ last_read = NoRead
  /\ last_reload = NoReload

\* What no snapshot operation touches.
snap_rest == <<queue_vars, next_entity_id, entity_map, current_camera_pos,
               delta_time, host_vars, pc, hist_vars, log_vars, runtime_vars,
               frame_delta, disk, channel, last_reload, install_vars,
               watch_vars, sched_vars, side_vars, tick_log,
               camera_tick>>

Snapshots == <<entity_positions, entity_health, keys_pressed>>

\* The keyboard changes between frames.
Keyboard ==
  /\ pc = "snapshot"
  /\ \E pressed \in SUBSET KeyCodes :
       /\ pressed # keyboard
       /\ keyboard' = pressed
  /\ UNCHANGED <<entity_positions, entity_health, keys_pressed, last_read,
                 snap_rest>>

\* lua_update_input, as in the frame.
SnapUpdateInput ==
  /\ pc = "snapshot"
  /\ keys_pressed' = update_input(clear_keys, keyboard, 1)
  /\ last_read' = [op |-> "input", arg |-> keyboard, ret |-> 0,
                   before |-> Snapshots]
  /\ UNCHANGED <<entity_positions, entity_health, keyboard, snap_rest>>

SnapSetKeyPressed ==
  /\ pc = "snapshot"
  /\ \E key \in KeyNames, pressed \in BOOLEAN :
       keys_pressed' = set_key_pressed(keys_pressed, key, pressed)
  /\ last_read' = NoRead
  /\ UNCHANGED <<entity_positions, entity_health, keyboard, snap_rest>>

SnapClearKeys ==
  /\ pc = "snapshot"
  /\ keys_pressed' = clear_keys
  /\ last_read' = NoRead
  /\ UNCHANGED <<entity_positions, entity_health, keyboard, snap_rest>>

SnapUpdateEntityPosition ==
  /\ pc = "snapshot"
  /\ \E id \in 1..MaxSnapId, v \in Vals :
       entity_positions' = update_entity_position(entity_positions, id, v)
  /\ last_read' = NoRead
  /\ UNCHANGED <<entity_health, keys_pressed, keyboard, snap_rest>>

SnapUpdateEntityHealth ==
  /\ pc = "snapshot"
  /\ \E id \in 1..MaxSnapId, current \in Vals :
       entity_health' = update_entity_health(entity_health, id, current, 1)
  /\ last_read' = NoRead
  /\ UNCHANGED <<entity_positions, keys_pressed, keyboard, snap_rest>>

\* A script reads; the bridge is only read-locked.
SnapRead(op, arg, ret) ==
  /\ pc = "snapshot"
  /\ last_read' = [op |-> op, arg |-> arg, ret |-> ret, before |-> Snapshots]
  /\ UNCHANGED <<entity_positions, entity_health, keys_pressed, keyboard,
                 snap_rest>>

SnapGetPosition ==
  \E id \in SnapIds :
    SnapRead("get_position", id, get_position(entity_positions, id))

SnapGetHealth ==
  \E id \in SnapIds :
    SnapRead("get_health", id, get_health(entity_health, id))

SnapIsKeyPressed ==
  \E key \in KeyNames :
    SnapRead("is_key_pressed", key, is_key_pressed(keys_pressed, key))

NextSnapshot ==
  \/ Keyboard
  \/ SnapUpdateInput
  \/ SnapSetKeyPressed
  \/ SnapClearKeys
  \/ SnapUpdateEntityPosition
  \/ SnapUpdateEntityHealth
  \/ SnapGetPosition
  \/ SnapGetHealth
  \/ SnapIsKeyPressed

SpecSnapshot == InitSnapshot /\ [][NextSnapshot]_vars

(***************************************************************************)
(* The runtime and the script files on their own: the files of the script  *)
(* directory change, and reload_script is called for a name as             *)
(* check_script_changes calls it.                                          *)
(***************************************************************************)

\* The scripts whose files change: one that was loaded at startup and one
\* that was not.
ReloadNames == {"player", "agent"}

InitReload ==
  /\ pending_spawns = <<>>
  /\ position_updates = <<>>
  /\ velocity_updates = <<>>
  /\ camera_position = None
  /\ mark_player = <<>>
  /\ mark_camera_target = <<>>
  /\ mark_world_element = <<>>
  /\ next_entity_id = 1
  /\ entity_map = <<>>
  /\ entity_positions = <<>>
  /\ current_camera_pos = 0
  /\ health_updates = <<>>
  /\ size_updates = <<>>
  /\ world = <<>>
  /\ next_handle = 1
  /\ camera_pos = 0
  /\ player_entity = None
  /\ pc = "runtime"
  /\ calls = 0
  /\ returned = <<>>
  /\ issued_tick = <<>>
  /\ last_run = NoRun
  /\ created_for = <<>>
  /\ last_take = NoTake
  /\ produced = EmptyLog
  /\ consumed = EmptyLog
  /\ delta_time = 0
  /\ keys_pressed = {}
  /\ entity_health = <<>>
  /\ disk = InitialDisk
  /\ loaded_scripts = NoRuntime.loaded_scripts
  /\ globals = NoRuntime.globals
  /\ frame_delta = 1
  /\ keyboard = {}
  /\ channel = <<>>
  /\ startup = StartupOk
  /\ resources = init_lua_scripting(StartupOk, InitialDisk).resources
  /\ debounced = {}
  /\ polled = <<>>
  /\ in_progress = {}
  /\ InitSide
  /\ tick_log = <<>>
  /\ camera_tick = <<>>
  /\ last_read = NoRead
  /\ last_reload = NoReload

\* What neither a file change nor a reload touches.
reload_rest == <<bridge_vars, host_vars, pc, hist_vars, log_vars,
                 frame_delta, keyboard, channel, last_read, install_vars,
                 watch_vars, sched_vars, side_vars, tick_log,
                 camera_tick>>

\* An editor saves a script file, or the file becomes unreadable.
WriteFile ==
  /\ pc = "runtime"
  /\ \E name \in ReloadNames, content \in Sources \cup {Unreadable} :
       /\ name \in DOMAIN disk => disk[name] # content
       /\ disk' = [k \in DOMAIN disk \cup {name} |->
                     IF k = name THEN content ELSE disk[k]]
  /\ UNCHANGED <<runtime_vars, last_reload, reload_rest>>

\* Whether a source text parses and runs to its end.
Executes(content) ==
  /\ content.syntax_ok
  /\ \A i \in 1..Len(content.stmts) : content.stmts[i].op # "error"

\* The log of an attempt on a name: the runtime before it, its outcome, and
\* the source of the last attempt on every name that ran to its end.
Attempt(op, name, file, r, rt) ==
  [op |-> op, name |-> name, file |-> file, result |-> r.result,
   execs |-> r.execs, before |-> rt,
   again |-> /\ last_reload.op = op
             /\ last_reload.name = name
             /\ last_reload.result = "Ok(false)"
             /\ last_reload.file = file,
   succeeded |->
     IF file # Unreadable /\ Executes(file)
     THEN [k \in DOMAIN last_reload.succeeded \cup {name} |->
             IF k = name THEN file ELSE last_reload.succeeded[k]]
     ELSE last_reload.succeeded]

\* runtime.load_script(name, path) as init_lua_scripting calls it for a
\* script that exists.
LoadScript ==
  /\ pc = "runtime"
  /\ \E name \in ScriptNames \cap ReloadNames :
       LET rt == [loaded_scripts |-> loaded_scripts, globals |-> globals]
           file == read_file(disk, name, "lua")
           r == load_script(rt, name, file)
       IN /\ name \in DOMAIN disk
          /\ loaded_scripts' = r.loaded_scripts
          /\ globals' = r.globals
          /\ last_reload' = Attempt("load", name, file, r, rt)
  /\ UNCHANGED <<disk, reload_rest>>

\* runtime.reload_script(name, path) for a .lua file of the directory.
ReloadScript ==
  /\ pc = "runtime"
  /\ \E name \in ReloadNames :
       LET rt == [loaded_scripts |-> loaded_scripts, globals |-> globals]
           file == read_file(disk, name, "lua")
           r == reload_script(rt, name, file)
       IN /\ loaded_scripts' = r.loaded_scripts
          /\ globals' = r.globals
          /\ last_reload' = Attempt("reload", name, file, r, rt)
  /\ UNCHANGED <<disk, reload_rest>>

NextReload ==
  \/ WriteFile
  \/ LoadScript
  \/ ReloadScript

SpecReload == InitReload /\ [][NextReload]_vars

(***************************************************************************)
(* The watcher and the reload check.  The debouncer's thread holds a       *)
(* changed path back and then sends an event for it; the reload check of   *)
(* the main thread receives message by message and then handles event by   *)
(* event, and both threads and the editor interleave freely.  Here         *)
(* produced logs the events sent and counts the messages sent, and         *)
(* consumed logs the events received.                                      *)
(***************************************************************************)

\* The messages the watcher sends in all.
MaxEvents == 2

\* The files that change: the player script and a file that is no script.
WatchPaths == {<<"player", "lua">>, <<"player", "txt">>}
WatchSources == {SrcA, SrcB, SrcParseError}

\* The session has spawned the player (id 1, handle 1) and is between two
\* reload checks.
InitWatch ==
  /\ pending_spawns = <<>>
  /\ position_updates = <<>>
  /\ velocity_updates = <<>>
  /\ camera_position = None
  /\ mark_player = <<>>
  /\ mark_camera_target = <<>>
  /\ mark_world_element = <<>>
  /\ next_entity_id = 2
  /\ entity_map = [i \in {1} |-> 1]
  /\ entity_positions = [i \in {1} |-> 0]
  /\ current_camera_pos = 0
  /\ health_updates = <<>>
  /\ size_updates = <<>>
  /\ world = [h \in {1} |->
               [NoMarkers(0) EXCEPT !.player = TRUE, !.velocity = Some(0),
                                    !.move_speed = Some(DEFAULT_MOVE_SPEED)]]
  /\ next_handle = 2
  /\ camera_pos = 0
  /\ player_entity = Some([lua_id |-> 1, entity |-> 1])
  /\ pc = "watch"
  /\ calls = 0
  /\ returned = <<>>
  /\ issued_tick = <<>>
  /\ last_run = NoRun
  /\ created_for = [h \in {1} |-> 1]
  /\ last_take = NoTake
  /\ produced = [events |-> <<>>, messages |-> 0]
  /\ consumed = [events |-> <<>>]
  /\ delta_time = 1
  /\ keys_pressed = {}
  /\ entity_health = <<>>
  /\ disk = InitialDisk
  /\ loaded_scripts = InitialRuntime.loaded_scripts
  /\ globals = InitialRuntime.globals
  /\ frame_delta = 1
  /\ keyboard = {}
  /\ channel = <<>>
  /\ startup = StartupOk
  /\ resources = init_lua_scripting(StartupOk, InitialDisk).resources
  /\ debounced = {}
  /\ polled = <<>>
  /\ in_progress = {}
  /\ InitSide
  /\ tick_log = <<>>
  /\ camera_tick = <<>>
  /\ last_read = NoRead
  /\ last_reload = NoReload

\* What neither the editor, the watcher nor the reload check touches.
watch_rest == <<bridge_vars, host_vars, hist_vars, frame_delta, keyboard,
                install_vars, sched_vars, side_vars, last_read, tick_log,
                camera_tick>>

\* The messages sent, and those still to be sent for the changes held back.
EventBudget == produced.messages + Cardinality(debounced)

\* An editor saves the player script with another text; the debouncer takes
\* note of the path.
WatchWriteScript ==
  /\ <<"player", "lua">> \in debounced \/ EventBudget < MaxEvents
  /\ \E content \in WatchSources :
       /\ disk["player"] # content
       /\ disk' = [disk EXCEPT !["player"] = content]
  /\ debounced' = debounced \cup {<<"player", "lua">>}
  /\ UNCHANGED <<runtime_vars, channel, polled, pc, log_vars, last_reload,
                 watch_rest>>

\* A file of the directory that is no script changes.
WatchWriteOther ==
  /\ <<"player", "txt">> \notin debounced
  /\ EventBudget < MaxEvents
  /\ debounced' = debounced \cup {<<"player", "txt">>}
  /\ UNCHANGED <<runtime_vars, disk, channel, polled, pc, log_vars,
                 last_reload, watch_rest>>

\* The debouncer's thread sends a message; the channel is unbounded, so
\* sending never waits.
WatchSend(result) ==
  /\ channel' = Append(channel, result)
  /\ produced' = [produced EXCEPT !.events = append_batch(@, result),
                                  !.messages = @ + 1]
  /\ UNCHANGED <<runtime_vars, disk, polled, pc, last_take, consumed,
                 last_reload, watch_rest>>

\* A path has been quiet for the debounce time: its event of kind Any is
\* sent, alone or in one batch with the other path's.
WatchDeliver ==
  \E first \in debounced, more \in SUBSET (debounced) :
    /\ first \notin more
    /\ WatchSend(OkBatch(
         <<Event(first[1], first[2], "Any")>>
           \o (IF more = {} THEN <<>>
               ELSE LET o == CHOOSE x \in more : TRUE
                    IN <<Event(o[1], o[2], "Any")>>)))
    /\ debounced' = debounced \ ({first} \cup more)

\* A path keeps changing beyond the debounce time: an event of kind
\* AnyContinuous is sent and the path stays held back.
WatchContinuous ==
  /\ EventBudget < MaxEvents
  /\ \E path \in debounced :
       WatchSend(OkBatch(<<Event(path[1], path[2], "AnyContinuous")>>))
  /\ UNCHANGED debounced

\* The file system notifier reports an error.
WatchError ==
  /\ EventBudget < MaxEvents
  /\ WatchSend(ErrBatch)
  /\ UNCHANGED debounced

\* check_script_changes starts: try_recv locks the receiver and starts
\* with an empty Vec.
WatchPollBegin ==
  /\ pc = "watch"
  /\ {"ScriptWatcher", "LuaRuntime"} \subseteq resources
  /\ pc' = "poll"
  /\ polled' = <<>>
  /\ last_take' = [kind |-> "poll", ret |-> <<>>,
                   before |-> consumed.events, again |-> FALSE]
  /\ UNCHANGED <<runtime_vars, disk, channel, debounced, produced,
                 consumed, last_reload, watch_rest>>

\* rx.try_recv() returns a message.
WatchPollRecv ==
  /\ pc = "poll"
  /\ channel # <<>>
  /\ channel' = rx_try_recv(channel).left
  /\ polled' = append_batch(polled, rx_try_recv(channel).result)
  /\ consumed' =
       [consumed EXCEPT
          !.events = append_batch(@, rx_try_recv(channel).result)]
  /\ UNCHANGED <<runtime_vars, disk, debounced, pc, last_take, produced,
                 last_reload, watch_rest>>

\* rx.try_recv() finds the channel empty: try_recv returns the Vec.
WatchPollEnd ==
  /\ pc = "poll"
  /\ channel = <<>>
  /\ pc' = "handle"
  /\ last_take' = [kind |-> "events", ret |-> polled,
                   before |-> last_take.before, again |-> FALSE]
  /\ UNCHANGED <<runtime_vars, disk, channel, debounced, polled, produced,
                 consumed, last_reload, watch_rest>>

\* The loop of check_script_changes handles the next event.
WatchHandle ==
  /\ pc = "handle"
  /\ polled # <<>>
  /\ LET rt == [loaded_scripts |-> loaded_scripts, globals |-> globals]
         e == Head(polled)
         r == handle_event(rt, disk, e)
     IN /\ loaded_scripts' = r.loaded_scripts
        /\ globals' = r.globals
        /\ last_reload' =
             [op |-> "event", event |-> e, name |-> e.stem,
              file |-> read_file(disk, e.stem, e.ext), result |-> r.result,
              execs |-> r.execs, reads |-> r.reads, calls |-> r.calls,
              before |-> rt, again |-> FALSE,
              succeeded |-> last_reload.succeeded]
  /\ polled' = Tail(polled)
  /\ UNCHANGED <<disk, channel, debounced, pc, log_vars, watch_rest>>

\* The loop is through: the system returns.
WatchDone ==
  /\ pc = "handle"
  /\ polled = <<>>
  /\ pc' = "watch"
  /\ UNCHANGED <<runtime_vars, disk, channel, debounced, polled, log_vars,
                 last_reload, watch_rest>>

\* The steps of the main thread.
WatchTick ==
  WatchPollBegin \/ WatchPollRecv \/ WatchPollEnd \/ WatchHandle \/ WatchDone

NextWatch ==
  \/ WatchWriteScript
  \/ WatchWriteOther
  \/ WatchDeliver
  \/ WatchContinuous
  \/ WatchError
  \/ WatchPollBegin
  \/ WatchPollRecv
  \/ WatchPollEnd
  \/ WatchHandle
  \/ WatchDone

SpecWatch == InitWatch /\ [][NextWatch]_vars

\* The main loop keeps running frames, and the debouncer's thread sends the
\* event of a path that has been quiet.
SpecWatchLive ==
  InitWatch /\ [][NextWatch]_vars /\ WF_vars(WatchTick) /\ WF_vars(WatchDeliver)

(***************************************************************************)
(* The id counter on its own: scripts call spawn_sprite until the counter  *)
(* has passed its largest value, and the command processor takes the       *)
(* pending spawns in between.  At the largest value `+= 1` overflows: a    *)
(* build with overflow checks panics there, inside the write lock, which   *)
(* is poisoned from then on, and a build without them wraps to 0.          *)
(***************************************************************************)

\* The spawns that wait in the queue at most.
MaxPending == 3

\* Calls enough to issue every value of the counter and two more.
CounterCalls == 2^IdBits + 1

InitCounter == InitAt("counter", StartupOk, InitialDisk)

counter_rest == <<position_updates, velocity_updates, camera_position,
                  mark_player, mark_camera_target, mark_world_element,
                  entity_map, delta_time, keys_pressed, entity_positions,
                  current_camera_pos, health_updates, entity_health,
                  size_updates, host_vars, issued_tick, last_run,
                  created_for, log_vars, outer_vars, tick_log, camera_tick>>

\* spawn_sprite returns: below the largest value in every build, at it in
\* a build without overflow checks.
CounterSpawnSprite ==
  /\ pc = "counter"
  /\ calls < CounterCalls
  /\ Len(pending_spawns) < MaxPending
  /\ calls' = calls + 1
  /\ \E v \in Vals :
       /\ next_entity_id' = spawn_sprite(v).next
       /\ pending_spawns' = spawn_sprite(v).pending
       /\ returned' = Append(returned, spawn_sprite(v).ret)
  /\ UNCHANGED <<pc, counter_rest>>

\* spawn_sprite at the largest value in a build with overflow checks: the
\* addition panics, nothing is queued or returned, and no later call gets
\* the poisoned lock.
CounterOverflowPanic ==
  /\ pc = "counter"
  /\ calls < CounterCalls
  /\ next_entity_id = U32_MAX
  /\ pc' = "poisoned"
  /\ calls' = calls + 1
  /\ UNCHANGED <<next_entity_id, pending_spawns, returned, counter_rest>>

\* The command processor takes the pending spawns.
CounterTake ==
  /\ pc = "counter"
  /\ pending_spawns # <<>>
  /\ pending_spawns' = take_pending_spawns.left
  /\ UNCHANGED <<pc, calls, next_entity_id, returned, counter_rest>>

NextCounter == CounterSpawnSprite \/ CounterOverflowPanic \/ CounterTake

SpecCounter == InitCounter /\ [][NextCounter]_vars

(***************************************************************************)
(* The REST client in use: the application calls the client and its clone  *)
(* from two tasks.  Every .await on the token lock or on a request is a    *)
(* point where the other task may run; a call is in one step where it      *)
(* awaits nothing but the lock, and in two, around the request, otherwise. *)
(***************************************************************************)
InitApi == InitAt("api", StartupOk, InitialDisk)

api_rest == <<bridge_vars, host_vars, pc, hist_vars, log_vars, runtime_vars,
              env_vars, read_vars, install_vars, watch_vars, sched_vars,
              agent_vars, tick_log, camera_tick>>

\* The clone is in no call and the application may start one.
ApiCall(c) == tasks[c].pc = "idle" /\ api_log.calls < MaxApiCalls

ApiSetTokens ==
  \E c \in Clients, access \in TokenVals, refresh \in TokenVals :
    /\ ApiCall(c)
    /\ tokens' = set_tokens(tokens, access, refresh)
    /\ tasks' = [tasks EXCEPT ![c] = Returned("set_tokens", "Ok")]
    /\ api_log' = [api_log EXCEPT !.caller = c, !.calls = @ + 1,
                                  !.access = Some(access),
                                  !.refresh = Some(refresh),
                                  !.signed_out = FALSE]
    /\ UNCHANGED api_rest

ApiSetAccessToken ==
  \E c \in Clients, token \in TokenVals :
    /\ ApiCall(c)
    /\ tokens' = set_access_token(tokens, token)
    /\ tasks' = [tasks EXCEPT ![c] = Returned("set_access_token", "Ok")]
    /\ api_log' = [api_log EXCEPT !.caller = c, !.calls = @ + 1,
                                  !.access = Some(token),
                                  !.signed_out = FALSE]
    /\ UNCHANGED api_rest

ApiSetRefreshToken ==
  \E c \in Clients, token \in TokenVals :
    /\ ApiCall(c)
    /\ tokens' = set_refresh_token(tokens, token)
    /\ tasks' = [tasks EXCEPT ![c] = Returned("set_refresh_token", "Ok")]
    /\ api_log' = [api_log EXCEPT !.caller = c, !.calls = @ + 1,
                                  !.refresh = Some(token)]
    /\ UNCHANGED api_rest

ApiClearTokens ==
  \E c \in Clients :
    /\ ApiCall(c)
    /\ tokens' = clear_tokens(tokens)
    /\ tasks' = [tasks EXCEPT ![c] = Returned("clear_tokens", "Ok")]
    /\ api_log' = [api_log EXCEPT !.caller = c, !.calls = @ + 1,
                                  !.access = None, !.refresh = None,
                                  !.signed_out = TRUE]
    /\ UNCHANGED api_rest

\* A protected endpoint up to its request: without an access token it
\* returns ApiError::Auth, with one the request is sent.
ApiProtectedStart ==
  \E c \in Clients, op \in ProtectedEndpoints :
    /\ ApiCall(c)
    /\ IF bearer_token(tokens).result = "Auth"
       THEN /\ tasks' = [tasks EXCEPT ![c] = Returned(op, "Auth")]
            /\ api_log' = [api_log EXCEPT !.caller = c, !.calls = @ + 1]
       ELSE /\ tasks' = [tasks EXCEPT ![c] = Awaiting(op)]
            /\ api_log' = [api_log EXCEPT !.caller = c, !.calls = @ + 1,
                                          !.requests = @ + 1]
    /\ UNCHANGED <<tokens, api_rest>>

\* The response of a protected endpoint arrives and the call returns.
ApiProtectedRespond ==
  \E c \in Clients, resp \in Responses :
    /\ tasks[c].pc = "await"
    /\ tasks[c].op \in ProtectedEndpoints
    /\ tasks' = [tasks EXCEPT
                   ![c] = Returned(tasks[c].op,
                                   response_result(tasks[c].op, resp))]
    /\ UNCHANGED <<tokens, api_log, api_rest>>

\* register and login send their request at once.
ApiAuthStart ==
  \E c \in Clients, op \in {"register", "login"} :
    /\ ApiCall(c)
    /\ tasks' = [tasks EXCEPT ![c] = Awaiting(op)]
    /\ api_log' = [api_log EXCEPT !.caller = c, !.calls = @ + 1,
                                  !.requests = @ + 1]
    /\ UNCHANGED <<tokens, api_rest>>

\* The response of register or login: on success the tokens of the
\* AuthResponse are stored with set_tokens.
ApiAuthRespond ==
  \E c \in Clients, resp \in Responses :
    /\ tasks[c].pc = "await"
    /\ tasks[c].op \in {"register", "login"}
    /\ LET result == response_result(tasks[c].op, resp)
       IN /\ tasks' = [tasks EXCEPT ![c] = Returned(tasks[c].op, result)]
          /\ IF result = "Ok"
             THEN \E access \in TokenVals, refresh \in TokenVals :
                    /\ tokens' = set_tokens(tokens, access, refresh)
                    /\ api_log' = [api_log EXCEPT !.access = Some(access),
                                                  !.refresh = Some(refresh),
                                                  !.signed_out = FALSE]
             ELSE UNCHANGED <<tokens, api_log>>
    /\ UNCHANGED api_rest

\* refresh up to its request: without a refresh token it returns
\* ApiError::Auth.
ApiRefreshStart ==
  \E c \in Clients :
    /\ ApiCall(c)
    /\ IF refresh_token(tokens) = None
       THEN /\ tasks' = [tasks EXCEPT ![c] = Returned("refresh", "Auth")]
            /\ api_log' = [api_log EXCEPT !.caller = c, !.calls = @ + 1]
       ELSE /\ tasks' = [tasks EXCEPT ![c] = Awaiting("refresh")]
            /\ api_log' = [api_log EXCEPT !.caller = c, !.calls = @ + 1,
                                          !.requests = @ + 1]
    /\ UNCHANGED <<tokens, api_rest>>

\* The response of refresh: on success the new access token is stored with
\* set_access_token.
ApiRefreshRespond ==
  \E c \in Clients, resp \in Responses :
    /\ tasks[c].pc = "await"
    /\ tasks[c].op = "refresh"
    /\ LET result == response_result("refresh", resp)
       IN /\ tasks' = [tasks EXCEPT ![c] = Returned("refresh", result)]
          /\ IF result = "Ok"
             THEN \E access \in TokenVals :
                    /\ tokens' = set_access_token(tokens, access)
                    /\ api_log' = [api_log EXCEPT !.access = Some(access)]
             ELSE UNCHANGED <<tokens, api_log>>
    /\ UNCHANGED api_rest

\* logout up to its request: without a refresh token it goes on to clear
\* the local tokens, with one the request is sent.
ApiLogoutStart ==
  \E c \in Clients :
    /\ ApiCall(c)
    /\ IF refresh_token(tokens) = None
       THEN /\ tasks' = [tasks EXCEPT
                           ![c] = [op |-> "logout", pc |-> "clear",
                                   result |-> "none"]]
            /\ api_log' = [api_log EXCEPT !.caller = c, !.calls = @ + 1]
       ELSE /\ tasks' = [tasks EXCEPT ![c] = Awaiting("logout")]
            /\ api_log' = [api_log EXCEPT !.caller = c, !.calls = @ + 1,
                                          !.requests = @ + 1]
    /\ UNCHANGED <<tokens, api_rest>>

\* logout without a refresh token: clear_tokens, then Ok(()).
ApiLogoutClear ==
  \E c \in Clients :
    /\ tasks[c].pc = "clear"
    /\ tokens' = clear_tokens(tokens)
    /\ tasks' = [tasks EXCEPT ![c] = Returned("logout", "Ok")]
    /\ api_log' = [api_log EXCEPT !.access = None, !.refresh = None,
                                  !.signed_out = TRUE]
    /\ UNCHANGED api_rest

\* The response of logout: `?` on send() returns the reqwest error as it
\* is; any response that did arrive is followed by clear_tokens, and then
\* by the result.
ApiLogoutRespond ==
  \E c \in Clients, resp \in Responses :
    /\ tasks[c].pc = "await"
    /\ tasks[c].op = "logout"
    /\ tasks' = [tasks EXCEPT
                   ![c] = Returned("logout", response_result("logout", resp))]
    /\ IF resp.sent
       THEN /\ tokens' = clear_tokens(tokens)
            /\ api_log' = [api_log EXCEPT !.access = None, !.refresh = None,
                                          !.signed_out = TRUE]
       ELSE UNCHANGED <<tokens, api_log>>
    /\ UNCHANGED api_rest

NextApi ==
  \/ ApiSetTokens
  \/ ApiSetAccessToken
  \/ ApiSetRefreshToken
  \/ ApiClearTokens
  \/ ApiProtectedStart
  \/ ApiProtectedRespond
  \/ ApiAuthStart
  \/ ApiAuthRespond
  \/ ApiRefreshStart
  \/ ApiRefreshRespond
  \/ ApiLogoutStart
  \/ ApiLogoutClear
  \/ ApiLogoutRespond

SpecApi == InitApi /\ [][NextApi]_vars

(***************************************************************************)
(* The orbiter agent (game/agent.rs): the systems of the build without     *)
(* scripting that create, drive and remove agents and players.  Lengths    *)
(* and times are integers: a position is a point of the grid, an angle is  *)
(* a number of eighths of a turn, and the frame's delta a number of time   *)
(* units.                                                                  *)
(***************************************************************************)

\* std::f32::consts::TAU, in eighths of a turn.
TAU == 8

\* The fields spawn_agent gives an agent, at the model's scale.
orbit_radius == 3
orbit_speed == 1
move_speed == 2
interact_duration == 1
circle_duration == 2

\* The distance under which an approaching agent starts to interact, and
\* the one under which a returning agent is back on its orbit.
InteractRange == 3
OrbitRange == 2

\* The frame times, where a player can be along the x axis, and the
\* entities and the calls of agent_behavior at most.
Deltas == {1, 2}
PlayerXs == {-1, 0, 1}
MaxAgents == 1
MaxPlayers == 2
MaxAgentCalls == 7

\* orbit_radius * angle.cos() and orbit_radius * angle.sin(), rounded to
\* the grid.
orbit_cos(angle) ==
  CASE angle % TAU = 0 -> orbit_radius
    [] angle % TAU \in {1, 7} -> 2
    [] angle % TAU \in {2, 6} -> 0
    [] angle % TAU \in {3, 5} -> -2
    [] OTHER -> -orbit_radius

orbit_sin(angle) == orbit_cos(angle + 6)

\* Vec2::length(), squared and rounded down.
length_squared(v) == v.x * v.x + v.y * v.y

length(v) ==
  CHOOSE r \in 0..length_squared(v) :
    r * r <= length_squared(v) /\ (r + 1) * (r + 1) > length_squared(v)

\* n / d of the numbers of the grid, rounded towards zero.
quot(n, d) == IF n >= 0 THEN n \div d ELSE -((-n) \div d)

\* agent.angle += agent.orbit_speed * delta, brought back under a turn.
advance_angle(angle, delta) ==
  IF angle + orbit_speed * delta > TAU
    THEN angle + orbit_speed * delta - TAU
    ELSE angle + orbit_speed * delta

AgentStates == {"Circling", "Approaching", "Interacting", "Returning"}

\* The Circling arm: along the orbit, and on to the approach when the
\* circle timer has run.
circling(agent, player_pos, delta) ==
  LET angle == advance_angle(agent.angle, delta)
      timer == agent.circle_timer + delta
  IN  [agent EXCEPT
         !.angle = angle,
         !.x = player_pos.x + orbit_cos(angle),
         !.y = player_pos.y + orbit_sin(angle),
         !.circle_timer = IF timer >= circle_duration THEN 0 ELSE timer,
         !.state = IF timer >= circle_duration THEN "Approaching" ELSE @]

\* An approaching agent that is close enough starts its way back at once.
approaching_skip(agent, player_pos, delta) ==
  LET to_player == [x |-> player_pos.x - agent.x,
                    y |-> player_pos.y - agent.y]
      distance == length(to_player)
  IN  IF length_squared(to_player) < InteractRange * InteractRange
        THEN [agent EXCEPT !.state = "Returning", !.interact_timer = 0]
        ELSE [agent EXCEPT
                !.x = @ + quot(to_player.x * move_speed * delta, distance),
                !.y = @ + quot(to_player.y * move_speed * delta, distance)]

\* The Approaching arm: towards the player, and on to the interaction when
\* close enough.
approaching(agent, player_pos, delta) ==
  LET to_player == [x |-> player_pos.x - agent.x,
                    y |-> player_pos.y - agent.y]
      distance == length(to_player)
  IN  IF length_squared(to_player) < InteractRange * InteractRange
        THEN [agent EXCEPT !.state = "Interacting", !.interact_timer = 0]
        ELSE [agent EXCEPT
                !.x = @ + quot(to_player.x * move_speed * delta, distance),
                !.y = @ + quot(to_player.y * move_speed * delta, distance)]

\* The Interacting arm: at the player, and on to the return when the
\* interact timer has run.
interacting(agent, player_pos, delta) ==
  LET timer == agent.interact_timer + delta
  IN  [agent EXCEPT
         !.x = player_pos.x,
         !.y = player_pos.y,
         !.interact_timer = timer,
         !.state = IF timer >= interact_duration THEN "Returning" ELSE @]

\* The Returning arm: towards the point of the orbit at the agent's angle,
\* which moves on meanwhile, and back to circling when close enough.
returning(agent, player_pos, delta) ==
  LET orbit_x == player_pos.x + orbit_cos(agent.angle)
      orbit_y == player_pos.y + orbit_sin(agent.angle)
      to_orbit == [x |-> orbit_x - agent.x, y |-> orbit_y - agent.y]
      distance == length(to_orbit)
  IN  IF length_squared(to_orbit) < OrbitRange * OrbitRange
        THEN [agent EXCEPT !.x = orbit_x, !.y = orbit_y,
                           !.state = "Circling"]
        ELSE [agent EXCEPT
                !.angle = advance_angle(@, delta),
                !.x = @ + quot(to_orbit.x * move_speed * 12 * delta,
                               10 * distance),
                !.y = @ + quot(to_orbit.y * move_speed * 12 * delta,
                               10 * distance)]

\* One agent's arm of the match in agent_behavior.
agent_step(agent, player_pos, delta) ==
  CASE agent.state = "Circling" -> circling(agent, player_pos, delta)
    [] agent.state = "Approaching" -> approaching(agent, player_pos, delta)
    [] agent.state = "Interacting" -> interacting(agent, player_pos, delta)
    [] OTHER -> returning(agent, player_pos, delta)

\* agent_behavior: nothing unless the player query has exactly one match,
\* else every agent's arm.
agent_behavior(delta) ==
  IF Len(player_query) # 1
    THEN agents
    ELSE [i \in DOMAIN agents |->
            agent_step(agents[i], player_query[1], delta)]

InitAgent == InitAt("agent", StartupOk, InitialDisk)

agent_rest == <<bridge_vars, host_vars, pc, returned, issued_tick, last_run,
                created_for, log_vars, runtime_vars, env_vars, read_vars,
                install_vars, watch_vars, sched_vars, client_vars, tick_log,
                camera_tick>>

\* spawn_agent.
SpawnAgent ==
  /\ pc = "agent"
  /\ Len(agents) < MaxAgents
  /\ agents' = Append(agents, [state |-> "Circling", angle |-> 0,
                               interact_timer |-> 0, circle_timer |-> 0,
                               x |-> orbit_radius, y |-> 0])
  /\ UNCHANGED <<player_query, calls, agent_rest>>

\* despawn_agents.
DespawnAgents ==
  /\ pc = "agent"
  /\ agents # <<>>
  /\ agents' = <<>>
  /\ UNCHANGED <<player_query, calls, agent_rest>>

\* spawn_player: one more entity at the origin.
SpawnPlayer ==
  /\ pc = "agent"
  /\ Len(player_query) < MaxPlayers
  /\ player_query' = Append(player_query, [x |-> 0, y |-> 0])
  /\ UNCHANGED <<agents, calls, agent_rest>>

\* despawn_player: every player entity goes.
DespawnPlayer ==
  /\ pc = "agent"
  /\ player_query # <<>>
  /\ player_query' = <<>>
  /\ UNCHANGED <<agents, calls, agent_rest>>

\* player_movement: every player moves by its velocity.
PlayerMovement ==
  /\ pc = "agent"
  /\ player_query # <<>>
  /\ \E vx \in {-1, 1} :
       /\ \A i \in DOMAIN player_query :
            player_query[i].x + vx \in PlayerXs
       /\ player_query' =
            [i \in DOMAIN player_query |->
               [player_query[i] EXCEPT !.x = @ + vx]]
  /\ UNCHANGED <<agents, calls, agent_rest>>

\* agent_behavior, for one frame's delta.
AgentBehavior ==
  /\ pc = "agent"
  /\ calls < MaxAgentCalls
  /\ calls' = calls + 1
  /\ \E delta \in Deltas : agents' = agent_behavior(delta)
  /\ UNCHANGED <<player_query, agent_rest>>

NextAgent ==
  \/ SpawnAgent
  \/ DespawnAgents
  \/ SpawnPlayer
  \/ DespawnPlayer
  \/ PlayerMovement
  \/ AgentBehavior

SpecAgent == InitAgent /\ [][NextAgent]_vars

\* The buffer a take operation drains.
Buffer(queue) ==
  CASE queue = "spawns" -> pending_spawns
    [] queue = "positions" -> position_updates
    [] queue = "velocities" -> velocity_updates
    [] queue = "healths" -> health_updates
    [] queue = "sizes" -> size_updates
    [] queue = "players" -> mark_player
    [] queue = "camera_targets" -> mark_camera_target
    [] queue = "world_elements" -> mark_world_element
    [] queue = "camera" -> camera_position

Queues == DOMAIN EmptyLog

(***************************************************************************)
(* Properties.  Those of the tick are stated on the state right after a    *)
(* command-processing run (pc = "frame_end"), where last_run holds what    *)
(* the run started from.                                                   *)
(***************************************************************************)
Ids(spawns) == [i \in 1..Len(spawns) |-> spawns[i].lua_id]
AfterRun == pc = "frame_end"
SpawnedIds == {last_run.spawned[i][1] : i \in 1..Len(last_run.spawned)}
SpawnedHandles == {last_run.spawned[i][2] : i \in 1..Len(last_run.spawned)}
Markers == {"player", "camera_target", "world_element"}
MarksOf(m) ==
  CASE m = "player" -> last_run.marks_player
    [] m = "camera_target" -> last_run.marks_camera_target
    [] m = "world_element" -> last_run.marks_world_element
HasMarker(w, h, m) ==
  CASE m = "player" -> w[h].player
    [] m = "camera_target" -> w[h].camera_target
    [] m = "world_element" -> w[h].world_element
\* The number of host entities ever created for an id.
CreatedCount(id) ==
  Cardinality({h \in DOMAIN created_for : created_for[h] = id})

\* C1: the i-th spawn_sprite call on a bridge returns i (the first returns
\* 1, each later one the previous id plus 1, so no id is returned twice),
\* and the pending spawns carry, in order, exactly the ids returned since
\* the last command-processing run.
C1_IdsMonotonic ==
  /\ \A i \in 1..Len(returned) : returned[i] = i
  /\ Ids(pending_spawns) = issued_tick

\* Two calls have been made and both spawns are still pending.
C1_Witness ==
  /\ returned = <<1, 2>>
  /\ Len(pending_spawns) = 2

\* C2: a command-processing run that follows N spawn_sprite requests
\* creates exactly N host entities with fresh handles and adds exactly N
\* map entries, the i-th created entity registered under the i-th issued
\* id; the map gains no other entry.
C2_SpawnsRealized ==
  AfterRun =>
    /\ Len(last_run.spawned) = Len(last_run.issued)
    /\ \A i \in 1..Len(last_run.issued) :
         /\ last_run.spawned[i][1] = last_run.issued[i]
         /\ last_run.issued[i] \in DOMAIN entity_map
         /\ entity_map[last_run.issued[i]] = last_run.spawned[i][2]
    /\ SpawnedHandles \cap DOMAIN last_run.before = {}
    /\ Cardinality(SpawnedHandles) = Len(last_run.issued)
    /\ DOMAIN world = DOMAIN last_run.before \cup SpawnedHandles
    /\ DOMAIN entity_map = last_run.known \cup Range(last_run.issued)
    /\ Cardinality(DOMAIN entity_map) =
         Cardinality(last_run.known) + Len(last_run.issued)

\* A run has just realized two spawns issued in one tick.
C2_Witness ==
  /\ AfterRun
  /\ Len(last_run.issued) = 2
  /\ Cardinality(DOMAIN world) = 2

\* C3: an issued id that is still pending has no entity and no map entry;
\* one that is no longer pending has exactly one entity ever created for
\* it, registered under it; and nothing is pending after a run, so each
\* spawn is consumed by the first run after it was queued and by no other.
C3_SpawnConsumedOnce ==
  /\ \A id \in Range(returned) :
       IF id \in Range(Ids(pending_spawns))
       THEN CreatedCount(id) = 0 /\ id \notin DOMAIN entity_map
       ELSE /\ CreatedCount(id) = 1
            /\ id \in DOMAIN entity_map
            /\ entity_map[id] \in DOMAIN created_for
            /\ created_for[entity_map[id]] = id
  /\ AfterRun => pending_spawns = <<>>

\* A later run, with nothing to spawn, has followed the run that realized
\* an id.
C3_Witness ==
  /\ AfterRun
  /\ last_run.issued = <<>>
  /\ last_run.known # {}
  /\ \A id \in last_run.known : CreatedCount(id) = 1

\* C4: the map is append-only: every step keeps every entry, with the same
\* handle, and an id is mapped only to a handle that was created for it by
\* a realized spawn.
C4_MapAppendOnly ==
  /\ [](\A id \in DOMAIN entity_map :
          /\ entity_map[id] \in DOMAIN created_for
          /\ created_for[entity_map[id]] = id)
  /\ [][\A id \in DOMAIN entity_map :
          /\ id \in DOMAIN entity_map'
          /\ entity_map'[id] = entity_map[id]]_vars

\* A run has registered a new id while an older entry was in the map.
C4_Witness ==
  /\ AfterRun
  /\ last_run.known # {}
  /\ Len(last_run.spawned) >= 1
  /\ \A id \in last_run.known : id \in DOMAIN entity_map

\* C5: every mapped id resolves to the handle of a host entity that still
\* exists, also once the InGame state has been left.
C5_MappedLive ==
  \A id \in DOMAIN entity_map : entity_map[id] \in DOMAIN world

\* C6: a host-function call leaves the entity store, the map, the handle
\* allocator, the camera, the player slot and the read-back snapshots as
\* they are; the map changes only in the command-processing step, and
\* outside that step the entity store changes only by losing entities.
C6_MutationDeferred ==
  [][/\ calls' # calls =>
          UNCHANGED <<world, entity_map, next_handle, camera_pos,
                      player_entity, entity_positions, current_camera_pos>>
     /\ entity_map' # entity_map => pc = "process"
     /\ (world' # world /\ pc # "process") =>
          /\ DOMAIN world' \subseteq DOMAIN world
          /\ \A h \in DOMAIN world' : world'[h] = world[h]]_vars

\* A script has queued a position update for an id whose entity is mapped
\* and live.
C6_Witness ==
  /\ pc \in {"update_player", "update_camera"}
  /\ position_updates # <<>>
  /\ position_updates[1][1] \in DOMAIN entity_map
  /\ entity_map[position_updates[1][1]] \in DOMAIN world
  /\ world[entity_map[position_updates[1][1]]].pos # position_updates[1][2]

\* C7: every take is drain-once: it returns exactly what its buffer held,
\* which is everything pushed and not yet taken, in push order, and leaves
\* the buffer empty (None for the camera); a take that directly follows
\* the same take returns empty.
C7_TakeDrainsOnce ==
  last_take.kind # "none" =>
    /\ last_take.ret = last_take.before
    /\ Buffer(last_take.kind) = <<>>
    /\ last_take.again => last_take.ret = <<>>
    /\ last_take.kind \in Queues =>
         consumed[last_take.kind] = produced[last_take.kind]

\* Pending spawns were taken twice in a row: two spawns came out of the
\* first take, in order, and nothing out of the second.
C7_Witness ==
  /\ last_take.kind = "spawns"
  /\ last_take.again
  /\ last_take.ret = <<>>
  /\ Ids(consumed.spawns) = <<1, 2>>

\* C8: whatever the interleaving of producer calls and takes, the commands
\* pushed to a queue are, in order, those the takes have returned so far
\* followed by those still buffered: each command is returned by exactly
\* one take, none is lost, and a take returns its whole buffer.
C8_EachCommandTakenOnce ==
  /\ \A q \in Queues : produced[q] = consumed[q] \o Buffer(q)
  /\ last_take.kind \in Queues =>
       Len(last_take.ret) = Len(last_take.before)

\* A position update was taken and another was pushed after that take.
C8_Witness ==
  /\ Len(consumed.positions) = 1
  /\ Len(position_updates) = 1
  /\ Len(produced.positions) = 2

\* C9 as stated: a marker requested for an id spawned in the same tick is
\* dropped (after the run the entity exists without the marker), while a
\* marker requested for an id realized in an earlier tick is attached.
C9_SameTickMarkDropped ==
  AfterRun =>
    \A m \in Markers : \A id \in Range(MarksOf(m)) :
      /\ id \in SpawnedIds =>
           /\ id \in DOMAIN entity_map
           /\ entity_map[id] \in DOMAIN world
           /\ ~HasMarker(world, entity_map[id], m)
      /\ id \in last_run.known =>
           /\ entity_map[id] \in DOMAIN world
           /\ HasMarker(world, entity_map[id], m)

\* C9 as the code has it: a marker requested for an id spawned in the same
\* tick is attached by that tick's run, since the run registers its spawns
\* before it resolves the marker queues; a marker requested for an id
\* realized in an earlier tick, whose entity exists, is attached as well.
C9_SameTickMarkApplied ==
  AfterRun =>
    \A m \in Markers : \A id \in Range(MarksOf(m)) :
      (id \in SpawnedIds \/ id \in last_run.known) =>
        /\ id \in DOMAIN entity_map
        /\ entity_map[id] \in DOMAIN world
        /\ HasMarker(world, entity_map[id], m)

\* An id was spawned and marked as player in one tick, and the run of that
\* tick attached the marker.
C9_Witness ==
  /\ AfterRun
  /\ \E id \in SpawnedIds :
       /\ id \in Range(last_run.marks_player)
       /\ world[entity_map[id]].player

\* C10: a marker or position command whose id has no map entry when the
\* run handles it is gone from its queue after the run and has changed no
\* entity: every marker an entity carries was there before the run or was
\* requested for an id mapped to that entity, and every position is the
\* one before the run, the spawn position, or one written for an id mapped
\* to that entity.
C10_UnresolvedDropped ==
  AfterRun =>
    /\ mark_player = <<>>
    /\ mark_camera_target = <<>>
    /\ mark_world_element = <<>>
    /\ position_updates = <<>>
    /\ \A h \in DOMAIN world :
         /\ \A m \in Markers :
              HasMarker(world, h, m) =>
                \/ h \in DOMAIN last_run.before
                   /\ HasMarker(last_run.before, h, m)
                \/ \E id \in Range(MarksOf(m)) :
                     id \in DOMAIN entity_map /\ entity_map[id] = h
         /\ \/ h \in DOMAIN last_run.before
               /\ world[h].pos = last_run.before[h].pos
            \/ \E i \in 1..Len(last_run.spawned) :
                 /\ last_run.spawned[i][2] = h
                 /\ world[h].pos = last_run.pending[i].x
            \/ \E i \in 1..Len(last_run.positions) :
                 /\ last_run.positions[i][1] \in DOMAIN entity_map
                 /\ entity_map[last_run.positions[i][1]] = h
                 /\ world[h].pos = last_run.positions[i][2]

\* A run handled a player mark and a position update for an id without a
\* map entry while an entity existed that they could have reached.
C10_Witness ==
  /\ AfterRun
  /\ world # <<>>
  /\ \E id \in Range(last_run.marks_player) : id \notin DOMAIN entity_map
  /\ \E i \in 1..Len(last_run.positions) :
       last_run.positions[i][1] \notin DOMAIN entity_map

\* The value of the last update a queue holds for an id.
LastFor(ups, id) ==
  ups[CHOOSE i \in 1..Len(ups) :
        /\ ups[i][1] = id
        /\ \A j \in (i + 1)..Len(ups) : ups[j][1] # id][2]
\* The ids a queue of updates names.
IdsOf(ups) == {ups[i][1] : i \in 1..Len(ups)}
\* The number of updates a queue holds for an id.
CountFor(ups, id) == Cardinality({i \in 1..Len(ups) : ups[i][1] = id})
\* The position of a system in the log of the frame, 0 when it has not run.
IndexIn(log, step) ==
  IF step \in Range(log) THEN CHOOSE i \in 1..Len(log) : log[i] = step ELSE 0

\* C11: at the end of every command-processing run every pending buffer is
\* empty: spawns, the three marker queues, the position, velocity, health
\* and size updates, and the camera overwrite.
C11_AllBuffersDrained ==
  AfterRun =>
    /\ pending_spawns = <<>>
    /\ mark_player = <<>>
    /\ mark_camera_target = <<>>
    /\ mark_world_element = <<>>
    /\ position_updates = <<>>
    /\ velocity_updates = <<>>
    /\ health_updates = <<>>
    /\ size_updates = <<>>
    /\ camera_position = None

\* C12: every position update whose id is mapped when the run handles it
\* has taken effect on that id's entity after the run, also when the id was
\* spawned in the same run, and no velocity, health or size update for a
\* mapped id is left behind.
C12_MappedUpdatesApplied ==
  AfterRun =>
    /\ \A id \in IdsOf(last_run.positions) \cap DOMAIN entity_map :
         /\ entity_map[id] \in DOMAIN world
         /\ world[entity_map[id]].pos = LastFor(last_run.positions, id)
    /\ \A id \in DOMAIN entity_map :
         /\ id \notin IdsOf(velocity_updates)
         /\ id \notin IdsOf(health_updates)
         /\ id \notin IdsOf(size_updates)

\* C13: when one tick queued several position updates for one id, the
\* position of that id's entity after the run is that of the last of them.
C13_LastWriteWins ==
  AfterRun =>
    \A id \in IdsOf(last_run.positions) \cap DOMAIN entity_map :
      CountFor(last_run.positions, id) >= 2 =>
        /\ entity_map[id] \in DOMAIN world
        /\ world[entity_map[id]].pos = LastFor(last_run.positions, id)

\* C14: the entity store after a run is the one obtained by applying the
\* tick's effects one after the other in the order spawns (registered and
\* bound to the player slot), player marks, camera-target marks,
\* world-element marks, position updates, camera overwrite; and the run is
\* the last system of the frame, run once, after the script updates and
\* the read-back of its frame.
C14_EffectsInOrder ==
  AfterRun =>
    /\ world =
         cp_positions(
           cp_apply(last_run.before, last_run.pending, last_run.spawned,
                    cp_resolved(entity_map, last_run.marks_player),
                    cp_resolved(entity_map, last_run.marks_camera_target),
                    cp_resolved(entity_map, last_run.marks_world_element)),
           entity_map, last_run.positions)
    /\ \A i \in 1..Len(last_run.spawned) :
         entity_map[last_run.spawned[i][1]] = last_run.spawned[i][2]
    /\ Cardinality({i \in 1..Len(tick_log) : tick_log[i] = "process"}) = 1
    /\ tick_log[Len(tick_log)] = "process"
    /\ IndexIn(tick_log, "sync") > 0
    /\ IndexIn(tick_log, "update_player") > 0
    /\ IndexIn(tick_log, "update_camera") > 0

\* C15 as stated: in every frame the systems run in the order time and
\* input snapshot, script updates, read-back, command processing, reload
\* check.
C15_DescribedOrder ==
  AfterRun =>
    /\ IndexIn(tick_log, "time") < IndexIn(tick_log, "update_player")
    /\ IndexIn(tick_log, "input") < IndexIn(tick_log, "update_player")
    /\ IndexIn(tick_log, "update_camera") < IndexIn(tick_log, "sync")
    /\ IndexIn(tick_log, "sync") < IndexIn(tick_log, "process")
    /\ IndexIn(tick_log, "process") < IndexIn(tick_log, "reload")

\* C15 as the code has it: the systems of a frame run one at a time, each
\* once, in the order reload check, time snapshot, input snapshot,
\* read-back, player update, health-bar update, camera update, command
\* processing: what has run so far is always a prefix of that order, the
\* system that runs next is the one after the prefix, and at the frame's
\* end all eight have run.
C15_ChainOrder ==
  LET order == <<"reload", "time", "input", "sync", "update_player",
                 "healthbar", "update_camera", "process">>
  IN /\ Len(tick_log) <= Len(order)
     /\ \A i \in 1..Len(tick_log) : tick_log[i] = order[i]
     /\ pc \in Range(order) => pc = order[Len(tick_log) + 1]
     /\ AfterRun => tick_log = order

\* A frame has run to its end, the scripts having queued a command in it.
C15_Witness ==
  /\ AfterRun
  /\ Len(tick_log) = 8
  /\ last_run.positions # <<>>
  /\ SlotReal

\* C16: while a script update function runs, get_position of every mapped
\* id is the position of that id's entity, and get_camera_position is the
\* camera's position.
C16_ReadBackAllRealized ==
  (pc \in {"update_player", "update_camera"} /\ SlotReal) =>
    /\ \A id \in DOMAIN entity_map :
         entity_map[id] \in DOMAIN world =>
           get_position(entity_positions, id) = world[entity_map[id]].pos
    /\ get_camera_position = camera_pos

\* C17: the pending camera position is the last value written since the
\* last run, or none; a run leaves none pending and sets the camera to the
\* last value written in its tick, leaving the camera where it was when
\* nothing was written.
C17_CameraLastWriteWins ==
  /\ camera_position =
       IF camera_tick = <<>> THEN None
       ELSE Some(camera_tick[Len(camera_tick)])
  /\ AfterRun =>
       /\ camera_position = None
       /\ camera_pos =
            IF last_run.camera_writes = <<>> THEN last_run.camera_before
            ELSE last_run.camera_writes[Len(last_run.camera_writes)]

\* A run followed a tick in which the camera position was written twice,
\* with different values, and moved the camera to the second.
C17_Witness ==
  /\ AfterRun
  /\ last_run.camera_writes = <<0, 1>>
  /\ last_run.camera_before = 0
  /\ camera_pos = 1

\* Two names are equal up to the case of their letters.
EqualsIgnoreCase(a, b) ==
  /\ Len(a) = Len(b)
  /\ \A i \in 1..Len(a) :
       \/ a[i] = b[i]
       \/ a[i] \in 65..90 /\ b[i] = a[i] + 32
       \/ a[i] \in 97..122 /\ b[i] = a[i] - 32
\* The names the input step's table gives the keys that are down.
NamesOfPressed(pressed) ==
  {key_mappings[i][2] :
     i \in {j \in 1..Len(key_mappings) : key_mappings[j][1] \in pressed}}

\* C18: right after an input step the pressed-key set is exactly the set
\* of names of the mapped keys that were down at that step, whatever the
\* set held before; every stored name is upper case; and is_key_pressed
\* answers true exactly when the set holds the name up to case.
C18_KeysReplacedEachTick ==
  /\ last_read.op = "input" => keys_pressed = NamesOfPressed(last_read.arg)
  /\ \A n \in keys_pressed : \A i \in 1..Len(n) : n[i] \notin 97..122
  /\ last_read.op = "is_key_pressed" =>
       last_read.ret =
         (\E n \in keys_pressed : EqualsIgnoreCase(n, last_read.arg))

\* An input step with only S down has followed a state in which W was in
\* the set: W is gone.
C18_Witness ==
  /\ last_read.op = "input"
  /\ last_read.arg = {"KeyS"}
  /\ <<87>> \in last_read.before[3]
  /\ keys_pressed = {<<83>>}

\* C19: get_position and get_health of an id without a snapshot entry
\* return (0, 0) and of an id with one return the entry, is_key_pressed of
\* a name that is not in the set returns false, and a read leaves the
\* snapshots as they were.
C19_ReadsDefault ==
  /\ last_read.op = "get_position" =>
       last_read.ret =
         IF last_read.arg \in DOMAIN entity_positions
         THEN entity_positions[last_read.arg] ELSE 0
  /\ last_read.op = "get_health" =>
       last_read.ret =
         IF last_read.arg \in DOMAIN entity_health
         THEN entity_health[last_read.arg] ELSE <<0, 0>>
  /\ (/\ last_read.op = "is_key_pressed"
      /\ \A n \in keys_pressed : ~EqualsIgnoreCase(n, last_read.arg)) =>
       last_read.ret = FALSE
  /\ last_read.op \in {"get_position", "get_health", "is_key_pressed"} =>
       last_read.before = Snapshots

\* get_position was asked for an id without an entry while another id had
\* a non-zero entry, and answered (0, 0).
C19_Witness ==
  /\ last_read.op = "get_position"
  /\ last_read.arg \notin DOMAIN entity_positions
  /\ \E id \in DOMAIN entity_positions : entity_positions[id] # 0
  /\ last_read.ret = 0

\* C20: a reload of a name whose file equals its record reports no change,
\* hands nothing to the interpreter, and leaves the records and every
\* global binding as they were - also when it repeats such a reload.
C20_ReloadSameContent ==
  (/\ last_reload.op = "reload"
   /\ last_reload.name \in DOMAIN last_reload.before.loaded_scripts
   /\ last_reload.before.loaded_scripts[last_reload.name] = last_reload.file)
  =>
    /\ last_reload.result = "Ok(false)"
    /\ last_reload.execs = 0
    /\ loaded_scripts = last_reload.before.loaded_scripts
    /\ globals = last_reload.before.globals
    /\ \A f \in DOMAIN last_reload.before.globals :
         f \in DOMAIN globals /\ globals[f] = last_reload.before.globals[f]

\* The script was reloaded with new content B, and then reloaded twice more
\* with the file unchanged: both report no change.
C20_Witness ==
  /\ last_reload.result = "Ok(false)"
  /\ last_reload.again
  /\ last_reload.name = "player"
  /\ last_reload.file = SrcB
  /\ loaded_scripts["player"] = SrcB

\* The names a source text binds, and the version a name has once the text
\* ran to its end.
DefinedBy(content) ==
  {content.stmts[i].name : i \in {j \in 1..Len(content.stmts) :
                                   content.stmts[j].op = "def"}}
LastDef(content, name) ==
  LET is == {i \in 1..Len(content.stmts) :
               content.stmts[i].op = "def" /\ content.stmts[i].name = name}
  IN content.stmts[CHOOSE i \in is : \A j \in is : j <= i].ver

\* C21: a reload of a name whose file differs from its record (or that has
\* no record) and whose text runs to its end reports a change, makes the
\* file's text the record of that name, binds every global the text defines
\* to the new definition so that it can be called, and leaves the other
\* globals and records as they were.
C21_ReloadNewContent ==
  (/\ last_reload.op = "reload"
   /\ last_reload.file # Unreadable
   /\ Executes(last_reload.file)
   /\ \/ last_reload.name \notin DOMAIN last_reload.before.loaded_scripts
      \/ last_reload.before.loaded_scripts[last_reload.name]
           # last_reload.file)
  =>
    /\ last_reload.result = "Ok(true)"
    /\ last_reload.execs = 1
    /\ last_reload.name \in DOMAIN loaded_scripts
    /\ loaded_scripts[last_reload.name] = last_reload.file
    /\ \A n \in DOMAIN last_reload.before.loaded_scripts \ {last_reload.name} :
         /\ n \in DOMAIN loaded_scripts
         /\ loaded_scripts[n] = last_reload.before.loaded_scripts[n]
    /\ \A f \in DefinedBy(last_reload.file) :
         /\ f \in DOMAIN globals
         /\ globals[f] = LastDef(last_reload.file, f)
         /\ call_function(globals, f) = "Ok"
    /\ \A f \in DOMAIN last_reload.before.globals
               \ DefinedBy(last_reload.file) :
         f \in DOMAIN globals /\ globals[f] = last_reload.before.globals[f]

\* The player script was loaded with text A, its file was saved with text B
\* and reloaded: update_player is overwritten and update_camera is new.
C21_Witness ==
  /\ last_reload.op = "reload"
  /\ last_reload.name = "player"
  /\ last_reload.file = SrcB
  /\ last_reload.result = "Ok(true)"
  /\ "player" \in DOMAIN last_reload.before.loaded_scripts
  /\ last_reload.before.loaded_scripts["player"] = SrcA
  /\ last_reload.before.globals["update_player"] = 1
  /\ "update_camera" \notin DOMAIN last_reload.before.globals
  /\ globals["update_player"] = 2
  /\ globals["update_camera"] = 2

\* C22: after any sequence of load and reload attempts the record of a name
\* is the source of the most recent attempt on that name whose file was
\* read and ran to its end, and the name has no record when no attempt did.
C22_RecordIsLastSuccess ==
  /\ DOMAIN loaded_scripts = DOMAIN last_reload.succeeded
  /\ \A n \in DOMAIN loaded_scripts :
       loaded_scripts[n] = last_reload.succeeded[n]

\* A successful load of text B was followed by two failed attempts on the
\* same name, and a name that only saw failed attempts has no record.
C22_Witness ==
  /\ last_reload.result = "Err"
  /\ last_reload.name = "player"
  /\ last_reload.file = SrcRuntimeError
  /\ "player" \in DOMAIN last_reload.before.loaded_scripts
  /\ loaded_scripts["player"] = SrcB
  /\ "agent" \in DOMAIN disk
  /\ "agent" \notin DOMAIN loaded_scripts

Remarked(ids) ==
  {h0 \in DOMAIN last_run.before :
     \E i \in 1..Len(ids) :
       /\ ids[i] \in DOMAIN entity_map
       /\ entity_map[ids[i]] = h0}

\* C30: after a command-processing run, an entity that already carried a
\* marker and was marked with it again still carries it, its other markers
\* are as before unless they were marked in the run too, its Velocity and
\* MoveSpeed are as before, and the marker queues are empty, so that no
\* entry is applied again.
C30_RemarkIdempotent ==
  AfterRun =>
    /\ mark_player = <<>>
    /\ mark_camera_target = <<>>
    /\ mark_world_element = <<>>
    /\ \A h \in DOMAIN last_run.before :
         LET was == last_run.before[h]
         IN /\ h \in DOMAIN world
            /\ (was.player /\ h \in Remarked(last_run.marks_player)) =>
                 /\ world[h].player
                 /\ world[h].velocity = was.velocity
                 /\ world[h].move_speed = was.move_speed
            /\ (was.camera_target
                  /\ h \in Remarked(last_run.marks_camera_target)) =>
                 world[h].camera_target
            /\ (was.world_element
                  /\ h \in Remarked(last_run.marks_world_element)) =>
                 world[h].world_element
            /\ h \notin Remarked(last_run.marks_player) =>
                 /\ world[h].player = was.player
                 /\ world[h].velocity = was.velocity
                 /\ world[h].move_speed = was.move_speed
            /\ h \notin Remarked(last_run.marks_camera_target) =>
                 world[h].camera_target = was.camera_target
            /\ h \notin Remarked(last_run.marks_world_element) =>
                 world[h].world_element = was.world_element

\* An entity that was the player before the run was marked as player again
\* in it.
C30_Witness ==
  /\ AfterRun
  /\ \E h \in DOMAIN last_run.before :
       /\ last_run.before[h].player
       /\ last_run.before[h].velocity = Some(0)
       /\ h \in Remarked(last_run.marks_player)
       /\ world[h].player
       /\ world[h].move_speed = Some(DEFAULT_MOVE_SPEED)

\* C28: a step whose entry point is no global, or a global that is not a
\* function, is answered with an error, makes no host call, leaves the
\* command queues, the player slot, the records and the globals as they
\* were, and the schedule moves on to the next system.
C28_MissingEntryPoint ==
  [][(/\ pc \in EntrySteps
      /\ pc \notin DOMAIN globals \/ globals[pc] = 0)
     => /\ call_function(globals, pc) = "Err"
        /\ calls' = calls
        /\ UNCHANGED <<queue_vars, next_entity_id, player_entity,
                       loaded_scripts, globals>>
        /\ pc' # pc]_vars

\* The second tick or a later one has completed with a player that
\* spawn_player created, although spawn_world and update_camera are not
\* defined and update_player is not a function.
C28_Witness ==
  /\ AfterRun
  /\ tick_log = update_chain
  /\ SlotReal
  /\ player_entity[1].entity \in DOMAIN last_run.before
  /\ "spawn_world" \notin DOMAIN globals
  /\ "update_camera" \notin DOMAIN globals
  /\ "update_player" \in DOMAIN globals
  /\ globals["update_player"] = 0

\* C29: when the interpreter could not be created or the bindings could not
\* be registered, no resource is installed and no scripting step ever
\* changes the bridge, the runtime, the player slot, the entity store or
\* the camera.
C29_FailedStartupInert ==
  (startup.lua_new = "Err" \/ startup.bindings = "Err")
  =>
    /\ resources = {}
    /\ calls = 0
    /\ loaded_scripts = <<>> /\ globals = <<>>
    /\ player_entity = None
    /\ world = <<>> /\ next_handle = 1 /\ camera_pos = 0
    /\ next_entity_id = 1 /\ entity_map = <<>>
    /\ \A q \in Queues : Buffer(q) = <<>>
    /\ camera_position = None
    /\ delta_time = 0 /\ keys_pressed = {}
    /\ entity_positions = <<>> /\ current_camera_pos = 0
    /\ last_run = NoRun

\* The bindings could not be registered, and a whole frame has run.
C29_Witness ==
  /\ startup.lua_new = "Ok"
  /\ startup.bindings = "Err"
  /\ pc = "frame_end"
  /\ tick_log = update_chain

RECURSIVE EventsIn(_)
EventsIn(ch) ==
  IF ch = <<>> THEN <<>>
  ELSE (IF ch[1].ok THEN ch[1].events ELSE <<>>) \o EventsIn(Tail(ch))

\* C25: the poll never waits (at every point it can receive a message or
\* return); the events sent are, in order, those received so far followed
\* by those still in the channel; a poll holds exactly the events received
\* since it began, in order, and returns them; so every event is returned
\* by exactly one poll.
C25_PollDeliversEachOnce ==
  /\ pc = "poll" => ENABLED (WatchPollRecv \/ WatchPollEnd)
  /\ produced.events = consumed.events \o EventsIn(channel)
  /\ pc = "poll" => consumed.events = last_take.before \o polled
  /\ (pc \in {"handle", "watch"} /\ last_take.kind = "events") =>
       consumed.events = last_take.before \o last_take.ret

\* A poll has returned the events of two messages, in the order in which
\* they were sent.
C25_Witness ==
  /\ pc = "handle"
  /\ last_take.kind = "events"
  /\ produced.messages = 2
  /\ last_take.ret =
       <<Event("player", "lua", "AnyContinuous"),
         Event("player", "lua", "Any")>>
  /\ polled = last_take.ret
  /\ channel = <<>>

\* C26: the reload check calls reload_script only for an event whose path
\* has the extension "lua"; for any other event it reads no file, hands
\* nothing to the interpreter and leaves the records and the globals as
\* they were.
C26_OnlyScriptEvents ==
  last_reload.op = "event" =>
    /\ last_reload.calls = 1 => last_reload.event.ext = "lua"
    /\ last_reload.event.ext # "lua" =>
         /\ last_reload.reads = 0
         /\ last_reload.calls = 0
         /\ last_reload.execs = 0
         /\ loaded_scripts = last_reload.before.loaded_scripts
         /\ globals = last_reload.before.globals

\* The event of a file that is no script was handled while the player
\* script's file differs from its record.
C26_Witness ==
  /\ last_reload.op = "event"
  /\ last_reload.event = Event("player", "txt", "Any")
  /\ disk["player"] = SrcB
  /\ loaded_scripts["player"] = SrcA

C31_TokenState ==
  /\ access_token(tokens) = api_log.access
  /\ refresh_token(tokens) = api_log.refresh
  /\ is_authenticated(tokens) <=> api_log.access # None
  /\ api_log.calls = 0 =>
       /\ ~is_authenticated(tokens)
       /\ access_token(tokens) = None
       /\ refresh_token(tokens) = None

\* The client stored both tokens and its clone then stored another refresh
\* token: the client is authenticated and the getters differ.
C31_Witness ==
  /\ tasks[1] = Returned("set_tokens", "Ok")
  /\ tasks[2] = Returned("set_refresh_token", "Ok")
  /\ api_log.calls = 2
  /\ is_authenticated(tokens)
  /\ access_token(tokens) = Some(1)
  /\ refresh_token(tokens) = Some(2)

\* The step in which clone c starts the call op.
ApiStarts(c, op) ==
  /\ api_log'.calls = api_log.calls + 1
  /\ api_log'.caller = c
  /\ tasks'[c].op = op

\* C32: a protected endpoint called while no access token is stored returns
\* ApiError::Auth at once, sends no request and leaves the token state as
\* it was.
C32_AuthRequired ==
  [][\A c \in Clients, op \in ProtectedEndpoints :
       ApiStarts(c, op) /\ access_token(tokens) = None =>
         /\ tasks'[c] = Returned(op, "Auth")
         /\ api_log'.requests = api_log.requests
         /\ tokens' = tokens]_vars

\* The clone called delete_session after the client had cleared the tokens
\* it had set: the call returned ApiError::Auth and no request has been
\* sent.
C32_Witness ==
  /\ tasks[2] = Returned("delete_session", "Auth")
  /\ tasks[1] = Returned("clear_tokens", "Ok")
  /\ api_log.caller = 2
  /\ api_log.calls = 3
  /\ api_log.requests = 0
  /\ tokens = NoTokens

\* C33: whenever logout() returns, with whatever outcome, both local tokens
\* are absent and is_authenticated() is false.
C33_LogoutAlwaysClears ==
  [][\A c \in Clients :
       tasks[c].op = "logout" /\ tasks[c].pc # "idle"
         /\ tasks'[c].pc = "idle" =>
           /\ access_token(tokens') = None
           /\ refresh_token(tokens') = None
           /\ ~is_authenticated(tokens')]_vars

\* C39: once the local tokens were cleared (by logout or by clear_tokens)
\* and every call has returned, no access token is stored unless a login, a
\* register or a setter stored one after the clearing; a refresh that was
\* in flight does not bring one back.
C39_RefreshDoesNotReauthenticate ==
  api_log.signed_out /\ (\A c \in Clients : tasks[c].pc = "idle") =>
    access_token(tokens) = None

\* C34: while update_player or update_camera is being run, the player slot
\* holds a handle that is not the placeholder, the command processor
\* created that handle for the slot's id and registered it in the entity
\* map, and it did so in an earlier tick: the command processor has not run
\* in this one.
C34_UpdateOnlyRealized ==
  pc \in {"update_player", "update_camera"} /\ ScriptRunning =>
    /\ player_entity # None
    /\ player_entity[1].entity # PLACEHOLDER
    /\ player_entity[1].lua_id \in DOMAIN entity_map
    /\ entity_map[player_entity[1].lua_id] = player_entity[1].entity
    /\ player_entity[1].entity \in DOMAIN created_for
    /\ created_for[player_entity[1].entity] = player_entity[1].lua_id
    /\ "process" \notin Range(tick_log)
    /\ last_run # NoRun

\* update_camera is being run for the player, whose spawn (the second of
\* the session) was realized in the first tick.
C34_Witness ==
  /\ pc = "update_camera"
  /\ ScriptRunning
  /\ player_entity[1].lua_id = 2
  /\ entity_map[2] = player_entity[1].entity
  /\ "update_player" \in Range(tick_log)

\* C35: once the command processor has run after spawn_player, a slot whose
\* id spawn_sprite issued holds the handle that was created for exactly
\* that id; a slot that holds a real handle never changes again; and a slot
\* whose id spawn_sprite never issued holds the placeholder.
C35_SlotBoundOnce ==
  /\ [](player_entity # None /\ last_run # NoRun
          /\ player_entity[1].lua_id \in Range(returned) =>
            /\ player_entity[1].entity # PLACEHOLDER
            /\ player_entity[1].entity \in DOMAIN created_for
            /\ created_for[player_entity[1].entity] = player_entity[1].lua_id
            /\ entity_map[player_entity[1].lua_id] = player_entity[1].entity)
  /\ [](player_entity # None
          /\ player_entity[1].lua_id \notin Range(returned) =>
            player_entity[1].entity = PLACEHOLDER)
  /\ [][player_entity # None /\ player_entity[1].entity # PLACEHOLDER =>
          player_entity' = player_entity]_vars

\* spawn_player returned the second id issued; the command processor bound
\* the slot to the second handle in the first tick and two more ticks, with
\* a further spawn, left the pair alone.
C35_Witness ==
  /\ player_entity = Some([lua_id |-> 2, entity |-> 2])
  /\ Len(returned) = 3
  /\ 3 \in DOMAIN entity_map
  /\ pc = "frame_end"

\* spawn_player returned an id that spawn_sprite never issued: two ticks
\* later the slot still holds the placeholder.
C35_WitnessUnissued ==
  /\ player_entity = Some([lua_id |-> 2, entity |-> PLACEHOLDER])
  /\ returned = <<1>>
  /\ 1 \in DOMAIN entity_map
  /\ pc = "frame_end"

\* C36: when a system that called a script returns, whether the call
\* succeeded or failed, every command the script queued is still in its
\* queue; and after the command processor has run, every spawn that was
\* pending when it started has its entity, also when the player slot was
\* left unset because spawn_player failed.
C36_NoRollback ==
  /\ [][pc' # pc /\ pc \in EntrySteps =>
          UNCHANGED <<queue_vars, next_entity_id>> ]_vars
  /\ [](pc = "frame_end" =>
          \A i \in 1..Len(last_run.pending) :
            /\ last_run.pending[i].lua_id \in DOMAIN entity_map
            /\ entity_map[last_run.pending[i].lua_id] \in DOMAIN created_for)

\* Only player.lua is there and update_player is no function, so every
\* host call was made by spawn_player: it called spawn_sprite and then
\* failed, the slot is unset and the entity of id 1 exists.
C36_Witness ==
  /\ DOMAIN disk = {"player"}
  /\ "LuaPlayerEntity" \in resources
  /\ pc = "frame_end"
  /\ player_entity = None
  /\ returned = <<1>>
  /\ 1 \in DOMAIN entity_map
  /\ entity_map[1] \in DOMAIN world

\* The loop of check_script_changes handles the next event in this step.
HandlesEvent ==
  /\ pc = "handle"
  /\ polled # <<>>
  /\ polled' = Tail(polled)

\* The event handled next is a further event of this poll for a script
\* file: the event handled just before was the same, and the file's text
\* is still the one that event read.
FurtherEvent ==
  /\ pc = "handle"
  /\ polled # <<>>
  /\ Len(polled) < Len(last_take.ret)
  /\ Head(polled).kind = "Any"
  /\ Head(polled).ext = "lua"
  /\ last_reload.op = "event"
  /\ last_reload.event = Head(polled)
  /\ last_reload.file # Unreadable
  /\ last_reload.file = read_file(disk, Head(polled).stem, Head(polled).ext)

\* C37 as stated: a further event of a poll for a file whose text has not
\* changed since the event before hands nothing to the interpreter and
\* reports "no change".
C37_OneExecPerChange ==
  [][HandlesEvent /\ FurtherEvent =>
       /\ last_reload'.execs = 0
       /\ last_reload'.result = "Ok(false)"]_vars

\* C37, amended: the first event for a changed file hands its text to the
\* interpreter once; when that text loaded (or was the loaded one already),
\* every further event of the poll for the unchanged file hands nothing to
\* the interpreter, reports "no change" and leaves the runtime as it is.
C37_OneExecPerLoadedChange ==
  [][HandlesEvent =>
       /\ FurtherEvent /\ last_reload.result \in {"Ok(true)", "Ok(false)"} =>
            /\ last_reload'.execs = 0
            /\ last_reload'.result = "Ok(false)"
            /\ UNCHANGED runtime_vars
       /\ LET e == Head(polled)
              file == read_file(disk, e.stem, e.ext)
          IN e.kind = "Any" /\ e.ext = "lua" /\ file # Unreadable
               /\ loaded_scripts[e.stem] # file =>
                 /\ last_reload'.execs = 1
                 /\ Executes(file) =>
                      /\ last_reload'.result = "Ok(true)"
                      /\ loaded_scripts'[e.stem] = file]_vars

\* One poll returned two events for player.lua, saved with another text
\* that loads: the first event loaded it and the second, just handled,
\* found no change.
C37_Witness ==
  /\ pc = "handle"
  /\ polled = <<>>
  /\ last_take.ret =
       <<Event("player", "lua", "Any"), Event("player", "lua", "Any")>>
  /\ last_reload.op = "event"
  /\ last_reload.result = "Ok(false)"
  /\ last_reload.execs = 0
  /\ last_reload.before.loaded_scripts["player"] = SrcB
  /\ loaded_scripts["player"] = SrcB
  /\ disk["player"] = SrcB

\* C38: no call of spawn_sprite, the one made at the counter's largest
\* value and those after it included, returns an id that an earlier call
\* returned.
C38_NoWrapOntoIssued ==
  \A i \in DOMAIN returned, j \in DOMAIN returned :
    i < j => returned[i] # returned[j]

\* The state that follows each state on the agent's cycle.
NextOnCycle ==
  [s \in AgentStates |->
     CASE s = "Circling" -> "Approaching"
       [] s = "Approaching" -> "Interacting"
       [] s = "Interacting" -> "Returning"
       [] OTHER -> "Circling"]

\* C40: a call of agent_behavior leaves every agent in the state it was in
\* or in the one that follows it on the cycle Circling, Approaching,
\* Interacting, Returning, Circling, and changes no agent at all when the
\* player query does not find exactly one entity.
C40_AgentCycle ==
  [][calls' # calls =>
       /\ DOMAIN agents' = DOMAIN agents
       /\ \A i \in DOMAIN agents :
            agents'[i].state \in
              {agents[i].state, NextOnCycle[agents[i].state]}
       /\ Len(player_query) # 1 => agents' = agents]_vars

\* An agent has gone once round the cycle: it is circling again, with the
\* interact timer its stay at the player ran up.
C40_Witness ==
  /\ calls > 0
  /\ Len(agents) >= 1
  /\ Len(player_query) = 1
  /\ agents[1].state = "Circling"
  /\ agents[1].interact_timer >= interact_duration
====
